---- MODULE Spec2Model ----
(***************************************************************************)
(* Model of the nssm crawler and incremental ingestion pipeline:           *)
(*   - the upsert sinks (scraper/persistence.py, market/news_openbb.py,    *)
(*     market/data.py),                                                    *)
(*   - the Nordnet ingestion cycle and its derived post key,               *)
(*   - the fetch strategy of the Nordnet and Placera scrapers and the      *)
(*     life cycle of the headless-browser session during a scraping job,   *)
(*   - the incremental fetch state (market/state_management.py),           *)
(*   - the sliding-window rate limiter of the API fetchers,                *)
(*   - the batched thread scrape of the Hegnar scraper.                    *)
(* Each component has its own specification over the shared variables.     *)
(***************************************************************************)
EXTENDS Integers, Sequences, FiniteSets, TLC

VARIABLES
    posts,        \* committed rows of table "posts"
    news,         \* committed rows of table "news"
    prices,       \* committed rows of table "market_prices"
    sinkOp,       \* what the last sink operation was given and what it did
    sinkProc,     \* the program that is running: each sink has its own entry point
    docs,         \* the documents of the (unchanged) Nordnet source window
    hashSeed,     \* the string-hash seed of the running Python process
    cycles,       \* the ingestion cycles run so far, oldest first
    clock,        \* wall clock
    run,          \* the scraping job: "idle", "running" or "ended"
    runExit,      \* how the scraping job ended
    liveDrivers,  \* the scrapers whose SeleniumWrapper holds a live WebDriver
    fetch,        \* the fetch(url) call in progress, or the last one
    fetchCount,   \* fetch calls started during the job
    browserCfg,   \* use_selenium_fallback and SELENIUM_AVAILABLE
    stateFile,    \* cache/news_state.json
    window,       \* the last result of get_incremental_fetch_params
    lastCycle,    \* the last ingestion cycle of a source and the state it left
    limiter,      \* which fetcher's limiter: "news" or "prices"
    call_timestamps, \* the module-level list of the limiter
    released,     \* the times at which callers were released to the API
    lastCall,     \* the last call through the limiter
    ticks,        \* pauses between calls so far
    batchCfg,     \* whether a batch_callback was passed
    threadYields, \* posts each thread of the Hegnar thread list yields
    threadIdx,    \* threads processed so far
    batch_posts,  \* size of the current batch
    all_posts,    \* how many posts the scrape has collected
    threads_in_current_batch,
    flushes,      \* the calls of batch_callback so far
    batchPc,      \* position in scrape_forum_with_threads
    failed,       \* whether a thread scrape or a flush has raised
    parser_cache, \* RobotsChecker.parser_cache: authority -> parser
    last_check,   \* RobotsChecker.last_check: authority -> time
    robotsCall,   \* the last can_fetch call and its answer
    paceLog,      \* the requests a scraper has sent, oldest first
    parseIn,      \* the input given to a parser function
    parseOut,     \* what the parser function returned
    newsweb,      \* the OsloBorsScraper of one fetch_oslo_bors_newsweb call
    paging,       \* the page loop of one listing scrape
    writers,      \* two processes updating the scraper state file
    retry         \* the attempts of one fetch_prices_for_ticker call

sinkVars == <<posts, news, prices, sinkOp, sinkProc>>

ingestVars == <<docs, hashSeed, cycles>>

scrapeVars == <<run, runExit, liveDrivers, fetch, fetchCount, browserCfg>>

stateVars == <<stateFile, window, lastCycle>>

limiterVars == <<limiter, call_timestamps, released, lastCall, ticks>>

batchVars == <<batchCfg, threadYields, threadIdx, batch_posts, all_posts,
               threads_in_current_batch,
               flushes, batchPc, failed>>

robotsVars == <<parser_cache, last_check, robotsCall>>

paceVars == <<paceLog>>

parseVars == <<parseIn, parseOut>>

tailVars == <<newsweb, paging, writers, retry>>

extraVars == <<robotsVars, paceVars, parseVars, tailVars>>

vars == <<sinkVars, ingestVars, clock, scrapeVars, stateVars, limiterVars, batchVars,
          extraVars>>

\* what the actions of one component leave alone
outsideSink == <<ingestVars, clock, scrapeVars, stateVars, limiterVars, batchVars, extraVars>>

outsideIngest == <<scrapeVars, stateVars, limiterVars, batchVars, extraVars>>

outsideScrape == <<sinkVars, ingestVars, clock, stateVars, limiterVars, batchVars, extraVars>>

outsideState == <<sinkVars, ingestVars, scrapeVars, limiterVars, batchVars, extraVars>>

outsideLimiter == <<sinkVars, ingestVars, scrapeVars, stateVars, batchVars, extraVars>>

outsideBatch == <<sinkVars, ingestVars, clock, scrapeVars, stateVars, limiterVars, extraVars>>

coreVars == <<sinkVars, ingestVars, scrapeVars, stateVars, limiterVars, batchVars>>

outsideRobots == <<coreVars, paceVars, parseVars, tailVars>>

outsidePace == <<coreVars, robotsVars, parseVars, tailVars>>

outsideParse == <<coreVars, clock, robotsVars, paceVars, tailVars>>

headVars == <<coreVars, robotsVars, paceVars, parseVars>>

outsideNewsweb == <<headVars, clock, paging, writers, retry>>

outsidePaging == <<headVars, clock, newsweb, writers, retry>>

outsideWriters == <<sinkVars, ingestVars, scrapeVars, limiterVars, batchVars,
                    robotsVars, paceVars, parseVars, clock, window, lastCycle,
                    newsweb, paging, retry>>

outsideRetry == <<headVars, clock, newsweb, paging, writers>>

NoFetch == [pc |-> "Idle", scraper |-> "none", trace |-> << >>, robots |-> "unknown",
            http |-> "none", body |-> "none", browser |-> "none",
            httpSent |-> FALSE, result |-> "pending"]

\* the value None of an Optional[datetime]; a datetime has a time (minutes)
\* and is timezone-aware or naive
NoneTs == [set |-> FALSE, t |-> 0, aware |-> FALSE]

MissingFile == [kind |-> "missing", sources |-> << >>]

\* the JSON value null where a timestamp text is expected
NullIso == [null |-> TRUE, text |-> 0, offset |-> FALSE]

NoWindow == [kind |-> "none", source |-> "none", at |-> 0, recorded |-> NullIso,
             days_back |-> 0, is_incremental |-> FALSE]

NoCycle == [source |-> "none", success |-> FALSE, at |-> 0, last_fetch_after |-> NoneTs]

\* the components that are not running in a behaviour
IdleIngest == docs = << >> /\ hashSeed = 0 /\ cycles = << >>

IdleClock == clock = 0

IdleScrape ==
    /\ run = "idle" /\ runExit = "none" /\ liveDrivers = {}
    /\ fetch = NoFetch /\ fetchCount = 0
    /\ browserCfg = [fallback |-> TRUE, available |-> TRUE]

IdleState == stateFile = MissingFile /\ window = NoWindow /\ lastCycle = NoCycle

NoCall == [arrived |-> 0, released |-> 0, full |-> FALSE, oldest |-> 0]

IdleLimiter ==
    /\ limiter = "none" /\ call_timestamps = << >> /\ released = << >>
    /\ lastCall = NoCall /\ ticks = 0

IdleBatch ==
    /\ batchCfg = [callback |-> FALSE]
    /\ threadYields = << >> /\ threadIdx = 0 /\ batch_posts = 0 /\ all_posts = 0
    /\ threads_in_current_batch = 0 /\ flushes = << >>
    /\ batchPc = "idle" /\ failed = FALSE

NoRobotsCall == [kind |-> "none", authority |-> "none", path |-> "none",
                 read |-> "none", cached |-> FALSE, expired |-> FALSE, answer |-> FALSE]

Authorities == {"nordnet", "hegnar"}

NoParser == [present |-> FALSE, disallow_all |-> FALSE, allow_all |-> FALSE,
             last_checked |-> FALSE, disallowed |-> {}]

IdleRobots ==
    /\ parser_cache = [a \in Authorities |-> NoParser]
    /\ last_check = [a \in Authorities |-> 0]
    /\ robotsCall = NoRobotsCall

IdlePace == paceLog = << >>

NoParse == [fn |-> "none", tag |-> << >>, hint |-> "none", body |-> << >>,
            doc |-> << >>, ticker |-> "none", records |-> 0, primary |-> 0,
            fallback |-> 0, used_fallback |-> FALSE, links |-> << >>,
            containers |-> << >>, returned |-> << >>, raised |-> FALSE]

IdleParse == parseIn = NoParse /\ parseOut = NoParse

NoNewsweb == [pc |-> "idle", created |-> 0, driver |-> FALSE, pending |-> 0,
              log |-> << >>]

IdleNewsweb == newsweb = NoNewsweb

NoPaging == [pc |-> "idle", max_pages |-> 0, seen |-> {}, log |-> << >>]

IdlePaging == paging = NoPaging

NoWriter == [pc |-> "idle", kind |-> "none", ts |-> NoneTs, state |-> << >>]

NoWriters == [w \in {1, 2} |-> NoWriter]

IdleWriters == writers = NoWriters

RetryTickers == {"EQNR", "DNB"}

NoAttempts == [pc |-> "ready", attempt_number |-> 0, errors |-> << >>,
               waits |-> << >>, result |-> "pending"]

NoRetry == [t \in RetryTickers |-> NoAttempts]

IdleRetry == retry = NoRetry

IdleTail == IdleNewsweb /\ IdlePaging /\ IdleWriters /\ IdleRetry

IdleExtra == IdleRobots /\ IdlePace /\ IdleParse /\ IdleTail

NoOp == [kind |-> "none", batch |-> << >>, before |-> {}, raced |-> {},
         outcome |-> "none", count |-> 0, marks |-> << >>, conflict |-> FALSE]

IdleSink ==
    /\ posts = {} /\ news = {} /\ prices = {} /\ sinkProc = "scraper"
    /\ sinkOp = NoOp

IdleCore ==
    IdleSink /\ IdleIngest /\ IdleScrape /\ IdleState /\ IdleLimiter /\ IdleBatch

----------------------------------------------------------------------------
(* Generic helpers *)

Range(s) == {s[i] : i \in 1..Len(s)}

SeqsUpTo(S, n) == UNION {[1..k -> S] : k \in 0..n}

Min(a, b) == IF a <= b THEN a ELSE b

Max(a, b) == IF a >= b THEN a ELSE b

CountOf(s, x) == Cardinality({i \in 1..Len(s) : s[i] = x})

----------------------------------------------------------------------------
(* Bounds of the sink model *)

\* longest batch handed to a sink in one call
MaxBatch == 3

Forums == {1, 2}

PostIds == {"p1", "p2"}

\* the mutable fields of a record (content, timestamp, ticker, ...) as one value
Vers == {1, 2}

NewsKeys == {"k1", "k2"}

NewsSources == {"openbb", "oslobors"}

----------------------------------------------------------------------------
(* Table "posts": surrogate id omitted; post_id is UNIQUE on its own.        *)

PostRows == [forum_id : Forums, post_id : PostIds, ver : Vers]

\* the unique constraint of the posts table: Column post_id unique=True
PostsUniqueOk(rows) ==
    \A r1, r2 \in rows : r1.post_id = r2.post_id => r1 = r2

\* the lookup of upsert_posts: filter(post_id == .., forum_id == ..).first()
PostLookup(db, post) ==
    {r \in db : r.post_id = post.post_id /\ r.forum_id = post.forum_id}

\* The for-loop of upsert_posts over the batch.  The session is created with
\* autoflush=False, so a post added earlier in the same batch is not seen by
\* the lookup of a later one: every lookup reads the committed rows only.
\* The branch for an existing post reads post.content, an attribute the Post
\* model does not have; the AttributeError is caught by the inner except and
\* the loop continues, so the stored row is left as it was.
RECURSIVE PostsLoop(_, _)
PostsLoop(db, batch) ==
    IF batch = << >> THEN [pending |-> << >>, inserted_count |-> 0, marks |-> << >>]
    ELSE LET rest == PostsLoop(db, Tail(batch))
             post == Head(batch)
         IN IF PostLookup(db, post) # {}
            THEN [pending |-> rest.pending,
                  inserted_count |-> rest.inserted_count,
                  marks |-> <<"exists">> \o rest.marks]
            ELSE [pending |-> <<post>> \o rest.pending,
                  inserted_count |-> rest.inserted_count + 1,
                  marks |-> <<"added">> \o rest.marks]

\* use_session.commit(): the INSERTs of the pending posts are flushed; the
\* flush raises IntegrityError when a pending post_id is already taken, by a
\* committed row (also one a concurrent writer committed meanwhile) or by an
\* earlier pending post of the same batch.
PostsCommitOk(db, pending) ==
    /\ \A i, j \in 1..Len(pending) : pending[i].post_id = pending[j].post_id => i = j
    /\ \A i \in 1..Len(pending) : \A r \in db : r.post_id # pending[i].post_id

\* rows a concurrent writer may commit between the lookups and the commit
RacedPosts(db) ==
    {{}} \cup {{r} : r \in {x \in PostRows : PostsUniqueOk(db \cup {x})}}

\* an upsert that reports the size of the batch it was handed
PostsUpsertCountsBatch(db, batch, raced) ==
    LET loop == PostsLoop(db, batch)
        db2  == db \cup raced
        ok   == PostsCommitOk(db2, loop.pending)
    IN [table |-> IF ok THEN db2 \cup Range(loop.pending) ELSE db2,
        op |-> [kind |-> "posts", batch |-> batch, before |-> db,
                raced |-> raced,
                outcome |-> IF ok THEN "returned" ELSE "raised",
                count |-> IF ok THEN Len(batch) ELSE 0,
                marks |-> loop.marks, conflict |-> ~ok]]

\* ScraperPersistence.upsert_posts(posts) with session=None, as a function of
\* the committed table: the table afterwards and what the call did.
\* an upsert whose inserts are committed one by one: a failing commit keeps
\* the pending posts that did not conflict
PostsUpsertPartial(db, batch, raced) ==
    LET loop == PostsLoop(db, batch)
        db2  == db \cup raced
        ok   == PostsCommitOk(db2, loop.pending)
        kept == {loop.pending[i] : i \in
                    {k \in 1..Len(loop.pending) :
                        /\ \A r \in db2 : r.post_id # loop.pending[k].post_id
                        /\ \A j \in 1..(k - 1) :
                              loop.pending[j].post_id # loop.pending[k].post_id}}
    IN [table |-> db2 \cup kept,
        op |-> [kind |-> "posts", batch |-> batch, before |-> db,
                raced |-> raced,
                outcome |-> IF ok THEN "returned" ELSE "raised",
                count |-> IF ok THEN loop.inserted_count ELSE 0,
                marks |-> loop.marks, conflict |-> ~ok]]

PostsUpsert(db, batch, raced) ==
    IF batch = << >>
    THEN [table |-> db \cup raced,
          op |-> [kind |-> "posts", batch |-> batch, before |-> db,
                  raced |-> raced, outcome |-> "returned", count |-> 0,
                  marks |-> << >>, conflict |-> FALSE]]
    ELSE LET loop == PostsLoop(db, batch)
             db2  == db \cup raced
             ok   == PostsCommitOk(db2, loop.pending)
         IN [table |-> IF ok THEN db2 \cup Range(loop.pending) ELSE db2,
             op |-> [kind |-> "posts", batch |-> batch, before |-> db,
                     raced |-> raced,
                     outcome |-> IF ok THEN "returned" ELSE "raised",
                     count |-> IF ok THEN loop.inserted_count ELSE 0,
                     marks |-> loop.marks, conflict |-> ~ok]]

UpsertPosts(batch, raced) ==
    /\ posts' = PostsUpsert(posts, batch, raced).table
    /\ sinkOp' = PostsUpsert(posts, batch, raced).op
    /\ UNCHANGED <<news, prices, sinkProc, outsideSink>>

----------------------------------------------------------------------------
(* Table "news": UNIQUE (ticker, source, headline, published_at).  A key k   *)
(* of NewsKeys stands for one (ticker, headline, published_at) triple.       *)

NewsRows == [k : NewsKeys, source : NewsSources, ver : Vers]

NewsUniqueOk(rows) ==
    \A r1, r2 \in rows : (r1.k = r2.k /\ r1.source = r2.source) => r1 = r2

\* One call of _upsert_news_item.  st.db are the committed rows, st.tx the
\* rows as the session sees them (committed rows plus its uncommitted
\* updates).  raced: a concurrent writer commits the same item between the
\* lookup and this session's commit.
NewsUpsertItem(st, item, raced) ==
    LET existing == {r \in st.tx : r.k = item.k}
    IN IF Cardinality(existing) > 1
       THEN \* scalar_one_or_none raises MultipleResultsFound: generic except
            [db |-> st.db, tx |-> st.db, count |-> st.count,
             marks |-> Append(st.marks, "error")]
       ELSE IF existing # {}
       THEN LET e == CHOOSE r \in existing : TRUE
            IN IF e.source # item.source \/ e.ver # item.ver
               THEN [db |-> st.db, tx |-> (st.tx \ {e}) \cup {item},
                     count |-> st.count + 1, marks |-> Append(st.marks, "updated")]
               ELSE [db |-> st.db, tx |-> st.tx, count |-> st.count,
                     marks |-> Append(st.marks, "same")]
       ELSE IF raced
       THEN \* IntegrityError at commit: rollback, return False
            [db |-> st.db \cup {item}, tx |-> st.db \cup {item},
             count |-> st.count, marks |-> Append(st.marks, "duplicate")]
       ELSE \* session.add(news); session.commit() also commits earlier updates
            [db |-> st.tx \cup {item}, tx |-> st.tx \cup {item},
             count |-> st.count + 1, marks |-> Append(st.marks, "inserted")]

RECURSIVE NewsLoop(_, _, _, _)
NewsLoop(st, batch, i, raceAt) ==
    IF i > Len(batch) THEN st
    ELSE NewsLoop(NewsUpsertItem(st, batch[i], i \in raceAt), batch, i + 1, raceAt)

\* OpenBBNewsFetcher.store_news_batch: one session for the batch, closed at
\* the end without a commit of its own.
StoreNewsBatch(batch, raceAt) ==
    /\ LET fin == NewsLoop([db |-> news, tx |-> news, count |-> 0, marks |-> << >>],
                           batch, 1, raceAt)
       IN /\ news' = fin.db
          /\ sinkOp' = [kind |-> "news", batch |-> batch, before |-> news,
                        raced |-> {batch[i] : i \in {j \in raceAt : fin.marks[j] = "duplicate"}},
                        outcome |-> "returned", count |-> fin.count,
                        marks |-> fin.marks,
                        conflict |-> \E j \in 1..Len(batch) : fin.marks[j] = "duplicate"]
    /\ UNCHANGED <<posts, prices, sinkProc, outsideSink>>

----------------------------------------------------------------------------
(* Table "market_prices": UNIQUE (ticker, timestamp, interval); a key k of   *)
(* NewsKeys stands for one such triple.                                      *)

PriceRows == [k : NewsKeys, ver : Vers]

\* One iteration of the loop of _upsert_price_data.
PriceUpsertPoint(st, point, raced) ==
    LET existing == {r \in st.tx : r.k = point.k}
    IN IF existing # {}
       THEN LET e == CHOOSE r \in existing : TRUE
            IN IF e.ver # point.ver
               THEN [db |-> st.db, tx |-> (st.tx \ {e}) \cup {point},
                     count |-> st.count + 1, marks |-> Append(st.marks, "updated")]
               ELSE [db |-> st.db, tx |-> st.tx, count |-> st.count,
                     marks |-> Append(st.marks, "same")]
       ELSE IF raced
       THEN [db |-> st.db \cup {point}, tx |-> st.db \cup {point},
             count |-> st.count, marks |-> Append(st.marks, "duplicate")]
       ELSE [db |-> st.tx \cup {point}, tx |-> st.tx \cup {point},
             count |-> st.count + 1, marks |-> Append(st.marks, "inserted")]

RECURSIVE PriceLoop(_, _, _, _)
PriceLoop(st, batch, i, raceAt) ==
    IF i > Len(batch) THEN st
    ELSE PriceLoop(PriceUpsertPoint(st, batch[i], i \in raceAt), batch, i + 1, raceAt)

\* OpenBBYahooFinancePriceFetcher.store_price_data / _upsert_price_data
UpsertPriceData(batch, raceAt) ==
    /\ LET fin == PriceLoop([db |-> prices, tx |-> prices, count |-> 0, marks |-> << >>],
                            batch, 1, raceAt)
       IN /\ prices' = fin.db
          /\ sinkOp' = [kind |-> "prices", batch |-> batch, before |-> prices,
                        raced |-> {batch[i] : i \in {j \in raceAt : fin.marks[j] = "duplicate"}},
                        outcome |-> "returned", count |-> fin.count,
                        marks |-> fin.marks,
                        conflict |-> \E j \in 1..Len(batch) : fin.marks[j] = "duplicate"]
    /\ UNCHANGED <<posts, news, sinkProc, outsideSink>>

----------------------------------------------------------------------------
\* python -m scraper writes posts; the market news and price fetchers are
\* separate programs, each writing its own table
SinkProcs == {"scraper", "market_news", "market_prices"}

\* The tables are persistent: a program starts on whatever rows earlier runs
\* and other writers left, i.e. on any table its constraints allow.
ValidPostTables == {T \in SUBSET PostRows : PostsUniqueOk(T)}

ValidNewsTables == {T \in SUBSET NewsRows : NewsUniqueOk(T)}

ValidPriceTables ==
    {T \in SUBSET PriceRows : \A r1, r2 \in T : r1.k = r2.k => r1 = r2}

InitSink ==
    /\ sinkProc \in SinkProcs
    /\ posts \in IF sinkProc = "scraper" THEN ValidPostTables ELSE {{}}
    /\ news \in IF sinkProc = "market_news" THEN ValidNewsTables ELSE {{}}
    /\ prices \in IF sinkProc = "market_prices" THEN ValidPriceTables ELSE {{}}
    /\ sinkOp = NoOp

Init ==
    /\ InitSink
    /\ IdleIngest /\ IdleClock /\ IdleScrape /\ IdleState /\ IdleLimiter /\ IdleBatch
    /\ IdleExtra

\* One program run hands one batch to its sink.
SinkIdle(proc) == sinkProc = proc /\ sinkOp.kind = "none"

\* at most one concurrent insert during one batch
RaceAts(batch) == {{}} \cup {{i} : i \in 1..Len(batch)}

NextSink ==
    \/ /\ SinkIdle("scraper")
       /\ \E batch \in SeqsUpTo(PostRows, MaxBatch) :
             \E raced \in RacedPosts(posts) : UpsertPosts(batch, raced)
    \/ /\ SinkIdle("market_news")
       /\ \E batch \in SeqsUpTo(NewsRows, MaxBatch) :
             \E raceAt \in RaceAts(batch) : StoreNewsBatch(batch, raceAt)
    \/ /\ SinkIdle("market_prices")
       /\ \E batch \in SeqsUpTo(PriceRows, MaxBatch) :
             \E raceAt \in RaceAts(batch) : UpsertPriceData(batch, raceAt)

SpecSink == Init /\ [][NextSink]_vars

----------------------------------------------------------------------------
(* Claims about the sinks *)

SamePostKey(a, b) == a.post_id = b.post_id /\ a.forum_id = b.forum_id

DupKeyInBatch(batch) ==
    \E i, j \in 1..Len(batch) : i < j /\ SamePostKey(batch[i], batch[j])

\* the table the last operation wrote
SinkTable ==
    IF sinkOp.kind = "posts" THEN posts
    ELSE IF sinkOp.kind = "news" THEN news ELSE prices

\* a record is stored when the sink's own lookup finds it
StoredInSink(item) ==
    IF sinkOp.kind = "posts" THEN PostLookup(posts, item) # {}
    ELSE \E r \in SinkTable : r.k = item.k

\* C1 (Dedup): when one batch handed to upsert_posts holds two records with
\* the same (forum_id, post_id), the flush completes and afterwards exactly
\* one record with that key is stored, and the other records of the batch
\* are stored as well.
C1_DedupWithinBatch ==
    (sinkOp.kind = "posts" /\ sinkOp.raced = {} /\ DupKeyInBatch(sinkOp.batch))
        => /\ sinkOp.outcome = "returned"
           /\ \A i \in 1..Len(sinkOp.batch) :
                 Cardinality(PostLookup(posts, sinkOp.batch[i])) = 1

\* C8: a unique-constraint violation at insert time is a benign duplicate:
\* the upsert does not raise, the conflicting record is not counted as
\* inserted, and the remaining records of the batch are stored.
C8_ConflictIsBenign ==
    sinkOp.conflict
        => /\ sinkOp.outcome = "returned"
           /\ sinkOp.count <= Cardinality(SinkTable) - Cardinality(sinkOp.before \cup sinkOp.raced)
           /\ \A i \in 1..Len(sinkOp.batch) : StoredInSink(sinkOp.batch[i])

\* rows the last operation added to its table
RowsAdded == Cardinality(SinkTable) - Cardinality(sinkOp.before \cup sinkOp.raced)

\* C9 as stated: the upsert of a batch returns the number of records that
\* were newly inserted; a record whose key existed contributes 0 whether or
\* not any of its fields were updated.
C9_ReturnsNewlyInserted ==
    sinkOp.outcome = "returned" => sinkOp.count = RowsAdded

\* C9 amended: upsert_posts returns the number of posts it inserted; the news
\* and price sinks return the number of records inserted plus the number of
\* records whose key existed and that differed from the stored record in at
\* least one field; an existing record with no differing field counts 0.
C9_ReturnedCount ==
    sinkOp.outcome = "returned"
        => /\ RowsAdded = CountOf(sinkOp.marks, "inserted") + CountOf(sinkOp.marks, "added")
           /\ sinkOp.count = RowsAdded + CountOf(sinkOp.marks, "updated")
           /\ sinkOp.kind = "posts" => CountOf(sinkOp.marks, "updated") = 0

C9_Witness ==
    /\ sinkOp.kind = "news"
    /\ sinkOp.outcome = "returned"
    /\ CountOf(sinkOp.marks, "updated") = 1
    /\ CountOf(sinkOp.marks, "inserted") = 1
    /\ CountOf(sinkOp.marks, "same") = 1
    /\ sinkOp.count = 2

----------------------------------------------------------------------------
(* The Nordnet ingestion cycle: scrape_and_store_nordnet over an unchanged  *)
(* source window.                                                           *)

MaxCycles == 3

MaxDocs == 2

Seeds == {1, 2}

NordnetForum == 3

Authors == {"ann", "bob"}

\* what the timestamp element of a post shows: an absolute date, or a
\* relative phrase ("2 timer siden"), or nothing at all
Stamps == {[kind |-> "absolute", at |-> 0], [kind |-> "relative", at |-> 0]}

Docs == [author : Authors, title : {"t1"}, stamp : Stamps]

\* the pages of the window, in order, holding distinct documents
DocWindows ==
    {w \in SeqsUpTo(Docs, MaxDocs) :
        /\ Len(w) >= 1
        /\ \A i, j \in 1..Len(w) : w[i] = w[j] => i = j}

\* NordnetScraper._parse_timestamp, and the default of _parse_post_container
\* when there is no timestamp element: a relative phrase or a missing element
\* gives datetime.now()
ParseTimestamp(stamp, now) ==
    IF stamp.kind = "absolute" THEN stamp.at ELSE now

\* Python's built-in hash() of a str is salted with a seed drawn when the
\* process starts: a value of the seed and of the string (collisions are
\* left out, which is the case that favours stable keys)
StrHash(seed, str) == <<seed, str>>

\* post_id = f"nordnet_{hash(f'{author}_{timestamp}_{title}')}"
NordnetPostId(seed, author, timestamp, title) ==
    StrHash(seed, <<author, timestamp, title>>)

\* _parse_post_container followed by post.forum_id = forum_id
ParseNordnetPost(doc, seed, now) ==
    [forum_id |-> NordnetForum,
     post_id |-> NordnetPostId(seed, doc.author, ParseTimestamp(doc.stamp, now), doc.title),
     ver |-> 1]

\* scrape_and_store_nordnet: scrape the window, set the forum id, upsert
RunNordnetCycle ==
    /\ sinkProc = "nordnet_cycle"
    /\ Len(cycles) < MaxCycles
    /\ LET found == [i \in 1..Len(docs) |-> ParseNordnetPost(docs[i], hashSeed, clock)]
           res   == PostsUpsert(posts, found, {})
       IN /\ posts' = res.table
          /\ sinkOp' = res.op
          /\ cycles' = Append(cycles,
                 [success |-> res.op.outcome = "returned",
                  posts_found |-> Len(found),
                  posts_stored |-> res.op.count,
                  marks |-> res.op.marks,
                  table_size |-> Cardinality(res.table),
                  seed |-> hashSeed,
                  at |-> clock])
    /\ clock' = clock + 1
    /\ UNCHANGED <<news, prices, sinkProc, docs, hashSeed, outsideIngest>>

\* the scraper process ends and a later one starts: a new hash seed is drawn
RestartProcess ==
    /\ sinkProc = "nordnet_cycle"
    /\ cycles # << >>
    /\ \E s \in Seeds : hashSeed' = s
    /\ UNCHANGED <<sinkVars, docs, clock, cycles, outsideIngest>>

InitIngest ==
    /\ sinkProc = "nordnet_cycle"
    /\ posts = {} /\ news = {} /\ prices = {}
    /\ sinkOp = NoOp
    /\ docs \in DocWindows
    /\ hashSeed \in Seeds
    /\ clock = 1
    /\ cycles = << >>
    /\ IdleScrape /\ IdleState /\ IdleLimiter /\ IdleBatch
    /\ IdleExtra

NextIngest == RunNordnetCycle \/ RestartProcess

SpecIngest == InitIngest /\ [][NextIngest]_vars

\* C2 (Idempotence of re-run): running an ingestion cycle a second time over
\* an unchanged source window inserts zero records, every upsert of the
\* second run resolves to "exists", and the table size is unchanged.
C2_RerunInsertsNothing ==
    Len(cycles) >= 2
        => LET c == cycles[Len(cycles)]
           IN /\ c.success
              /\ c.posts_stored = 0
              /\ \A i \in 1..Len(c.marks) : c.marks[i] = "exists"
              /\ c.table_size = cycles[1].table_size

----------------------------------------------------------------------------
(* The scraping job (scraper/__main__.py run_scraping_job), the fetch       *)
(* strategy of the Nordnet and Placera scrapers, and the WebDriver of       *)
(* their SeleniumWrapper.                                                   *)

MaxFetches == 3

BrowserScrapers == {"nordnet", "placera"}

\* classes of HTTP bodies: "" / a page with the forum content / a page that
\* lacks the content or shows a loading indicator
Bodies == {"empty", "static", "script"}

\* _needs_javascript_fallback(html)
NeedsJavascriptFallback(body) == body = "script"

\* a fetch that falls back to the HTTP document when the browser gives none
KeepHttpDocument(html, rendered) == IF rendered = "null" THEN html ELSE rendered

\* html = self._fetch_with_selenium(url): the browser's answer replaces the
\* HTTP document, also when it is None
BrowserResult(html, rendered) == rendered

\* with ScraperPersistence() as persistence: the scrapers and their
\* SeleniumWrappers are constructed, each wrapper with driver = None
StartRun ==
    /\ run = "idle"
    /\ run' = "running"
    /\ liveDrivers' = {}
    /\ UNCHANGED <<runExit, fetch, fetchCount, browserCfg, outsideScrape>>

\* fetch(url) is entered
FetchStart(s) ==
    /\ run = "running"
    /\ fetch.pc \in {"Idle", "Done"}
    /\ fetchCount < MaxFetches
    /\ fetch' = [NoFetch EXCEPT !.pc = "Start", !.scraper = s, !.trace = <<"Start">>]
    /\ fetchCount' = fetchCount + 1
    /\ UNCHANGED <<run, runExit, liveDrivers, browserCfg, outsideScrape>>

\* _fetch_with_requests up to session.get: the robots check comes first and
\* a disallowed URL returns None before any request to the URL
HttpAttempt(allowed) ==
    /\ run = "running"
    /\ fetch.pc = "Start"
    /\ fetch' = IF allowed
                THEN [fetch EXCEPT !.pc = "HttpAttempt",
                                   !.trace = Append(@, "HttpAttempt"),
                                   !.robots = "allowed", !.httpSent = TRUE]
                ELSE [fetch EXCEPT !.pc = "Done",
                                   !.trace = @ \o <<"HttpAttempt", "Done">>,
                                   !.robots = "disallowed", !.result = "null"]
    /\ UNCHANGED <<run, runExit, liveDrivers, fetchCount, browserCfg, outsideScrape>>

\* the rest of _fetch_with_requests: a RequestException (connection error,
\* timeout, HTTP error status) returns None, otherwise response.text
HttpResponse(ok, body) ==
    /\ run = "running"
    /\ fetch.pc = "HttpAttempt"
    /\ fetch' = IF ok
                THEN [fetch EXCEPT !.pc = "RenderCheck",
                                   !.trace = Append(@, "RenderCheck"),
                                   !.http = "ok", !.body = body]
                ELSE [fetch EXCEPT !.pc = "Done", !.trace = Append(@, "Done"),
                                   !.http = "fail", !.result = "null"]
    /\ UNCHANGED <<run, runExit, liveDrivers, fetchCount, browserCfg, outsideScrape>>

\* if html and self._needs_javascript_fallback(html): ... ; return html
RenderCheck ==
    /\ run = "running"
    /\ fetch.pc = "RenderCheck"
    /\ fetch' = IF fetch.body # "empty" /\ NeedsJavascriptFallback(fetch.body)
                THEN [fetch EXCEPT !.pc = "BrowserAttempt",
                                   !.trace = Append(@, "BrowserAttempt")]
                ELSE [fetch EXCEPT !.pc = "Done", !.trace = Append(@, "Done"),
                                   !.result = fetch.body]
    /\ UNCHANGED <<run, runExit, liveDrivers, fetchCount, browserCfg, outsideScrape>>

BrowserOutcomes == {"create_failed", "timeout", "error", "ok"}

\* _fetch_with_selenium and SeleniumWrapper.get_page_source: no wrapper or no
\* selenium package gives None; the driver is created on first use and kept;
\* a timeout or a WebDriver error gives None
BrowserAttempt(outcome) ==
    /\ run = "running"
    /\ fetch.pc = "BrowserAttempt"
    /\ outcome = "create_failed" => fetch.scraper \notin liveDrivers
    /\ LET s == fetch.scraper
           happened ==
               IF ~browserCfg.fallback THEN "no_wrapper"
               ELSE IF ~browserCfg.available THEN "unavailable"
               ELSE outcome
           created == happened \in {"timeout", "error", "ok"}
           rendered == IF happened = "ok" THEN "rendered" ELSE "null"
       IN /\ liveDrivers' = IF created THEN liveDrivers \cup {s} ELSE liveDrivers
          /\ fetch' = [fetch EXCEPT !.pc = "Done", !.trace = Append(@, "Done"),
                                    !.browser = happened,
                                    !.result = BrowserResult(fetch.body, rendered)]
    /\ UNCHANGED <<run, runExit, fetchCount, browserCfg, outsideScrape>>

\* run_scraping_job returns, with the results or from its except branch;
\* ScraperPersistence.__exit__ is "pass"
EndRun(exit) ==
    /\ run = "running"
    /\ fetch.pc \in {"Idle", "Done"}
    /\ run' = "ended"
    /\ runExit' = exit
    /\ UNCHANGED <<liveDrivers, fetch, fetchCount, browserCfg, outsideScrape>>

\* signal_handler: sys.exit(0) unwinds the job wherever it is
CancelRun ==
    /\ run = "running"
    /\ run' = "ended"
    /\ runExit' = "cancelled"
    /\ fetch' = IF fetch.pc \in {"Idle", "Done"} THEN fetch
                ELSE [fetch EXCEPT !.pc = "Aborted"]
    /\ UNCHANGED <<liveDrivers, fetchCount, browserCfg, outsideScrape>>

\* SeleniumWrapper.__del__: when, and whether, the interpreter finalizes the
\* unreachable wrapper is up to the garbage collector
FinalizeWrapper(s) ==
    /\ run = "ended"
    /\ s \in liveDrivers
    /\ liveDrivers' = liveDrivers \ {s}
    /\ UNCHANGED <<run, runExit, fetch, fetchCount, browserCfg, outsideScrape>>

InitScrape ==
    /\ run = "idle" /\ runExit = "none" /\ liveDrivers = {}
    /\ fetch = NoFetch /\ fetchCount = 0
    /\ browserCfg \in [fallback : BOOLEAN, available : BOOLEAN]
    /\ posts = {} /\ news = {} /\ prices = {} /\ sinkOp = NoOp /\ sinkProc = "scraper"
    /\ IdleIngest /\ IdleClock /\ IdleState /\ IdleLimiter /\ IdleBatch
    /\ IdleExtra

NextScrape ==
    \/ StartRun
    \/ \E s \in BrowserScrapers : FetchStart(s)
    \/ \E allowed \in BOOLEAN : HttpAttempt(allowed)
    \/ \E ok \in BOOLEAN : \E body \in Bodies : HttpResponse(ok, body)
    \/ RenderCheck
    \/ \E outcome \in BrowserOutcomes : BrowserAttempt(outcome)
    \/ \E exit \in {"success", "error"} : EndRun(exit)
    \/ CancelRun
    \/ \E s \in BrowserScrapers : FinalizeWrapper(s)

SpecScrape == InitScrape /\ [][NextScrape]_vars

IsPrefix(a, b) == Len(a) <= Len(b) /\ \A i \in 1..Len(a) : a[i] = b[i]

FetchPaths ==
    {<<"Start", "HttpAttempt", "Done">>,
     <<"Start", "HttpAttempt", "RenderCheck", "Done">>,
     <<"Start", "HttpAttempt", "RenderCheck", "BrowserAttempt", "Done">>}

InTrace(state) == \E i \in 1..Len(fetch.trace) : fetch.trace[i] = state

\* C3: fetch(url) follows Start -> HttpAttempt -> {RenderCheck | Done(null)}
\* -> {Done(doc) | BrowserAttempt} -> {Done(doc) | Done(null)}; the browser is
\* tried only after an HTTP attempt that succeeded and was classified
\* render-required; an HTTP failure ends in null without a browser attempt;
\* a browser failure or timeout ends in null, never in the unrendered HTTP
\* document; a robots-disallowed URL ends in null with neither an HTTP
\* request to the URL nor a browser attempt.
C3_FetchStateMachine ==
    /\ \E path \in FetchPaths : IsPrefix(fetch.trace, path)
    /\ InTrace("BrowserAttempt")
          => fetch.http = "ok" /\ NeedsJavascriptFallback(fetch.body)
    /\ fetch.pc = "Done" =>
          /\ fetch.trace \in FetchPaths
          /\ fetch.trace = <<"Start", "HttpAttempt", "Done">> => fetch.result = "null"
          /\ fetch.http = "fail" =>
                fetch.result = "null" /\ ~InTrace("BrowserAttempt") /\ fetch.browser = "none"
          /\ (InTrace("BrowserAttempt") /\ fetch.browser # "ok") => fetch.result = "null"
          /\ (InTrace("BrowserAttempt") /\ fetch.browser = "ok") => fetch.result = "rendered"
          /\ (InTrace("RenderCheck") /\ ~InTrace("BrowserAttempt")) =>
                fetch.result = fetch.body /\ fetch.browser = "none"
          /\ fetch.robots = "disallowed" =>
                /\ fetch.result = "null"
                /\ ~fetch.httpSent
                /\ ~InTrace("BrowserAttempt") /\ fetch.browser = "none"

C3_Witness ==
    /\ fetch.pc = "Done"
    /\ fetch.trace = <<"Start", "HttpAttempt", "RenderCheck", "BrowserAttempt", "Done">>
    /\ fetch.browser = "timeout"
    /\ fetch.body = "script"
    /\ fetch.result = "null"

\* C7: whenever a scraping job ends, by success, by an error or by
\* cancellation, every browser session opened during it has been closed.
C7_RunEndReleasesBrowser ==
    run = "ended" => liveDrivers = {}

----------------------------------------------------------------------------
(* The incremental fetch state (market/state_management.py).  Time is in    *)
(* minutes.                                                                 *)

\* the instants at which something happens
ClockPoints == {0, 10, 2880, 2890, 4320, 44640}

MaxTotalFetches == 2

\* how far ahead of the clock a caller-supplied timestamp may lie
FutureSkew == 60

Sources == {"openbb", "hegnar"}

\* the sources _create_default_state seeds (of the five, one is kept)
PreSeeded == {"openbb"}

MinutesPerDay == 1440

BackfillThresholdHours == 48

MaxBackfillDays == 30

DefaultDaysBack == 1

\* last_backfill_ts is kept as its ISO text: load_state converts only
\* last_fetch_ts back to a datetime
DefaultSourceState ==
    [last_fetch_ts |-> NoneTs, total_fetches |-> 0, last_backfill_ts |-> NullIso]

\* _create_default_state: the "sources" mapping
CreateDefaultState == [src \in PreSeeded |-> DefaultSourceState]

\* datetime.isoformat(): the text carries the offset of an aware datetime
IsoFormat(dt) ==
    IF dt.set THEN [null |-> FALSE, text |-> dt.t, offset |-> dt.aware] ELSE NullIso

\* datetime.fromisoformat() followed by oslo_tz.localize() of a naive result
FromIsoFormat(str) ==
    IF str.null THEN NoneTs ELSE [set |-> TRUE, t |-> str.text, aware |-> TRUE]

\* load_state: a missing or unreadable file gives the default state
LoadState(file) ==
    IF file.kind # "json" THEN CreateDefaultState
    ELSE [src \in DOMAIN file.sources |->
             [last_fetch_ts |-> FromIsoFormat(file.sources[src].last_fetch_ts),
              total_fetches |-> file.sources[src].total_fetches,
              last_backfill_ts |-> file.sources[src].last_backfill_ts]]

\* save_state: _make_serializable, then open(.., "w") and json.dump; every
\* error is logged and swallowed.  open truncates the file, so a failing
\* dump leaves it unreadable.
SaveState(file, state, saved) ==
    IF saved = "ok"
    THEN [kind |-> "json",
          sources |-> [src \in DOMAIN state |->
                         [last_fetch_ts |-> IsoFormat(state[src].last_fetch_ts),
                          total_fetches |-> state[src].total_fetches,
                          last_backfill_ts |-> state[src].last_backfill_ts]]]
    ELSE IF saved = "dump_failed" THEN [kind |-> "corrupt", sources |-> << >>]
    ELSE file

SaveOutcomes == {"ok", "open_failed", "dump_failed"}

\* what the file holds as last_fetch_ts of the source
RecordedEntry(file, source) ==
    IF file.kind = "json" /\ source \in DOMAIN file.sources
    THEN file.sources[source].last_fetch_ts
    ELSE NullIso

\* get_last_fetch_timestamp
GetLastFetchTimestamp(file, source) ==
    IF source \in DOMAIN LoadState(file)
    THEN LoadState(file)[source].last_fetch_ts
    ELSE NoneTs

\* int(x / y) of Python: truncation towards zero
TruncDiv(x, y) == IF x >= 0 THEN x \div y ELSE -((-x) \div y)

\* a window computation without the cap on the backfill
FetchParamsUncapped(last_fetch, now, default_days_back) ==
    IF ~last_fetch.set
    THEN [days_back |-> default_days_back, is_incremental |-> FALSE]
    ELSE LET seconds == (now - last_fetch.t) * 60
         IN IF seconds > BackfillThresholdHours * 3600
            THEN [days_back |-> TruncDiv(seconds, 24 * 3600), is_incremental |-> FALSE]
            ELSE [days_back |-> Max(1, TruncDiv(seconds, 24 * 3600)),
                  is_incremental |-> TRUE]

\* get_incremental_fetch_params, given the timestamp read and the time now
IncrementalFetchParams(last_fetch, now, default_days_back) ==
    IF ~last_fetch.set
    THEN [days_back |-> default_days_back, is_incremental |-> FALSE]
    ELSE LET seconds == (now - last_fetch.t) * 60
         IN IF seconds > BackfillThresholdHours * 3600
            THEN [days_back |-> Min(TruncDiv(seconds, 24 * 3600), MaxBackfillDays),
                  is_incremental |-> FALSE]
            ELSE [days_back |-> Max(1, TruncDiv(seconds, 24 * 3600)),
                  is_incremental |-> TRUE]

TickClock ==
    /\ \E c \in ClockPoints : c > clock /\ clock' = c
    /\ UNCHANGED <<stateVars, outsideState>>

\* the timestamp argument: None (now, aware), or a datetime of the caller
TimestampArgs(now) ==
    {[set |-> TRUE, t |-> now, aware |-> TRUE],
     [set |-> TRUE, t |-> now, aware |-> FALSE],
     [set |-> TRUE, t |-> now + FutureSkew, aware |-> TRUE]}

\* update_last_fetch_timestamp(source, timestamp)
UpdateLastFetchTimestamp(source, timestamp, saved) ==
    /\ LET loaded == LoadState(stateFile)
           state  == IF source \in DOMAIN loaded THEN loaded
                     ELSE [src \in DOMAIN loaded \cup {source} |->
                              IF src = source THEN DefaultSourceState ELSE loaded[src]]
           state2 == [state EXCEPT ![source] =
                         [last_fetch_ts |-> timestamp,
                          total_fetches |-> state[source].total_fetches + 1,
                          last_backfill_ts |-> state[source].last_backfill_ts]]
       IN /\ state[source].total_fetches < MaxTotalFetches
          /\ stateFile' = SaveState(stateFile, state2, saved)
    /\ UNCHANGED <<window, lastCycle, clock, outsideState>>

\* get_incremental_fetch_params(source)
GetIncrementalFetchParams(source) ==
    /\ LET last_fetch == GetLastFetchTimestamp(stateFile, source)
           params == IncrementalFetchParams(last_fetch, clock, DefaultDaysBack)
       IN window' = [kind |-> "computed", source |-> source, at |-> clock,
                     recorded |-> RecordedEntry(stateFile, source),
                     days_back |-> params.days_back,
                     is_incremental |-> params.is_incremental]
    /\ UNCHANGED <<stateFile, lastCycle, clock, outsideState>>

\* reset_source(source)
ResetSource(source, saved) ==
    /\ LET state == LoadState(stateFile)
       IN /\ source \in DOMAIN state
          /\ state[source] # DefaultSourceState
          /\ stateFile' = SaveState(stateFile,
                                   [state EXCEPT ![source] = DefaultSourceState], saved)
    /\ UNCHANGED <<window, lastCycle, clock, outsideState>>

\* reset_all()
ResetAll(saved) ==
    /\ stateFile' = SaveState(stateFile, CreateDefaultState, saved)
    /\ UNCHANGED <<window, lastCycle, clock, outsideState>>

\* One ingestion cycle of a source: scrape_and_store_hegnar for the forum,
\* run() for the market sources.  Neither reads nor writes the fetch state.
RunIngestionCycle(source, success) ==
    /\ lastCycle' = [source |-> source, success |-> success, at |-> clock,
                     last_fetch_after |-> GetLastFetchTimestamp(stateFile, source)]
    /\ window' = NoWindow
    /\ UNCHANGED <<stateFile, clock, outsideState>>

InitState ==
    /\ stateFile = MissingFile
    /\ window = NoWindow
    /\ lastCycle = NoCycle
    /\ clock = 0
    /\ posts = {} /\ news = {} /\ prices = {} /\ sinkOp = NoOp /\ sinkProc = "market_news"
    /\ IdleIngest /\ IdleScrape /\ IdleLimiter /\ IdleBatch
    /\ IdleExtra

NextState ==
    \/ TickClock
    \/ \E source \in Sources : \E timestamp \in TimestampArgs(clock) :
          \E saved \in SaveOutcomes : UpdateLastFetchTimestamp(source, timestamp, saved)
    \/ \E source \in Sources : GetIncrementalFetchParams(source)
    \/ \E source \in Sources : \E saved \in SaveOutcomes : ResetSource(source, saved)
    \/ \E saved \in SaveOutcomes : ResetAll(saved)

SpecState == InitState /\ [][NextState]_vars

\* The ingestion programs and the CLI around them: cycles, window requests,
\* and the reset command.
InitCycle ==
    /\ stateFile \in {MissingFile, SaveState(MissingFile, CreateDefaultState, "ok")}
    /\ window = NoWindow
    /\ lastCycle = NoCycle
    /\ clock = 0
    /\ posts = {} /\ news = {} /\ prices = {} /\ sinkOp = NoOp /\ sinkProc = "scraper"
    /\ IdleIngest /\ IdleScrape /\ IdleLimiter /\ IdleBatch
    /\ IdleExtra

NextCycle ==
    \/ TickClock
    \/ \E source \in Sources : \E success \in BOOLEAN : RunIngestionCycle(source, success)
    \/ \E source \in Sources : GetIncrementalFetchParams(source)
    \/ \E saved \in SaveOutcomes : ResetAll(saved)

SpecCycle == InitCycle /\ [][NextCycle]_vars

WindowAsked == window.kind = "computed"

\* the window was asked for a source whose file entry held a last fetch
WindowHasRecorded == WindowAsked /\ ~window.recorded.null

\* C4: for a source whose last fetch is recorded at T, evaluated at time now
\* with gap g = now - T: if g is more than 48 hours the window is a backfill
\* (is_incremental false) of min(floor(g / 24h), 30) days, otherwise it is
\* incremental with max(1, floor(g / 24h)) days; g = 10 minutes gives
\* (true, 1) and g = 72 hours gives a backfill of at most 30 days.
C4_FetchWindow ==
    WindowHasRecorded
        => LET T == window.recorded.text
               g == window.at - T
           IN /\ IF g > BackfillThresholdHours * 60
                 THEN /\ ~window.is_incremental
                      /\ window.days_back = Min(g \div MinutesPerDay, MaxBackfillDays)
                 ELSE /\ window.is_incremental
                      /\ window.days_back = Max(1, g \div MinutesPerDay)
              /\ g = 10 => (window.is_incremental /\ window.days_back = 1)
              /\ g = 72 * 60 => (~window.is_incremental /\ window.days_back <= 30)

C4_Witness ==
    /\ WindowHasRecorded
    /\ window.at - window.recorded.text = 44640
    /\ window.days_back = 30
    /\ ~window.is_incremental

\* C5: a source with no prior state ("hegnar", not pre-seeded) gets the
\* default window (1 day, not incremental); after a successful ingestion
\* cycle of that source its last_fetch_ts is set; and a window asked for 10
\* minutes later is (1 day, incremental).
C5_StateUpdatedOnSuccess ==
    /\ (WindowAsked /\ ~WindowHasRecorded)
          => (window.days_back = DefaultDaysBack /\ ~window.is_incremental)
    /\ lastCycle.success => lastCycle.last_fetch_after.set
    /\ (/\ lastCycle.success
        /\ WindowAsked
        /\ window.source = lastCycle.source
        /\ window.at = lastCycle.at + 10)
          => (window.days_back = 1 /\ window.is_incremental)

----------------------------------------------------------------------------
(* The rate limiter of the API fetchers: _rate_limit_wait of                *)
(* market/news_openbb.py and of market/data.py.  Time is in seconds.        *)

MaxCalls == 62

MaxTicks == 1

TickSteps == {1, 60}

\* the length of the window: "now - ts < 60"
Window == 60

NewsCap == 60

PriceCap == 30

RateCap(which) == IF which = "news" THEN NewsCap ELSE PriceCap

\* call_timestamps = [ts for ts in call_timestamps if now - ts < 60]
PruneTimestamps(stamps, now) == SelectSeq(stamps, LAMBDA ts : now - ts < Window)

\* _rate_limit_wait(): prune, sleep when the list is full, and append the
\* time read on entry
RateLimitWait ==
    /\ limiter \in {"news", "prices"}
    /\ Len(released) < MaxCalls
    /\ LET now    == clock
           pruned == PruneTimestamps(call_timestamps, now)
           full   == Len(pruned) >= RateCap(limiter)
           sleep_time == IF full THEN Window - (now - pruned[1]) ELSE 0
           wake   == IF sleep_time > 0 THEN now + sleep_time ELSE now
       IN /\ clock' = wake
          /\ call_timestamps' = Append(pruned, now)
          /\ released' = Append(released, wake)
          /\ lastCall' = [arrived |-> now, released |-> wake, full |-> full,
                          oldest |-> IF full THEN pruned[1] ELSE now]
    /\ UNCHANGED <<limiter, ticks, outsideLimiter>>

\* time passes between two calls
Pause(d) ==
    /\ limiter \in {"news", "prices"}
    /\ ticks < MaxTicks
    /\ clock' = clock + d
    /\ ticks' = ticks + 1
    /\ UNCHANGED <<limiter, call_timestamps, released, lastCall, outsideLimiter>>

InitLimiter ==
    /\ limiter \in {"news", "prices"}
    /\ call_timestamps = << >> /\ released = << >> /\ lastCall = NoCall /\ ticks = 0
    /\ clock = 0
    /\ posts = {} /\ news = {} /\ prices = {} /\ sinkOp = NoOp
    /\ sinkProc = IF limiter = "news" THEN "market_news" ELSE "market_prices"
    /\ IdleIngest /\ IdleScrape /\ IdleState /\ IdleBatch
    /\ IdleExtra

NextLimiter ==
    \/ RateLimitWait
    \/ \E d \in TickSteps : Pause(d)

SpecLimiter == InitLimiter /\ [][NextLimiter]_vars

\* releases within the sliding window that ends at the latest release
ReleasedInLastWindow ==
    Cardinality({j \in 1..Len(released) :
                    released[Len(released)] - released[j] < Window})

\* C6: the number of calls released within any sliding 60-second interval
\* never exceeds the cap (60 for news, 30 for prices); a caller arriving
\* while the window is full is blocked until the oldest call has left it.
C6_SlidingWindowCap ==
    /\ released # << >> => ReleasedInLastWindow <= RateCap(limiter)
    /\ lastCall.full => lastCall.released >= lastCall.oldest + Window
    /\ ~lastCall.full => lastCall.released = lastCall.arrived

----------------------------------------------------------------------------
(* The batched thread scrape of HegnarScraper.scrape_forum_with_threads.    *)

\* records of the two-unit scenario
ScenarioRecords == 150

MaxThreads == 6

OtherYields == {0, 40}

BatchSizePosts == 100

BatchSizeThreads == 5

ScenarioSplits == {<<a, ScenarioRecords - a>> : a \in 0..ScenarioRecords}

\* a flush condition that needs more than batch_size_posts posts
ShouldStoreBatchStrict(callback, size, threads) ==
    callback /\ (size > BatchSizePosts \/ threads >= BatchSizeThreads)

\* should_store_batch
ShouldStoreBatch(callback, size, threads) ==
    callback /\ (size >= BatchSizePosts \/ threads >= BatchSizeThreads)

\* One iteration of "for thread_id in thread_ids[:max_threads]".  raised: the
\* thread scrape raises; flushOk: batch_callback returns.  An exception in
\* the body is caught and the loop continues, the batch as it was.
ProcessThread(raised, flushOk) ==
    /\ batchPc = "threads"
    /\ threadIdx < Len(threadYields)
    /\ LET threads == threads_in_current_batch + 1
           size    == batch_posts + threadYields[threadIdx + 1]
           store   == ShouldStoreBatch(batchCfg.callback, size, threads)
       IN IF raised
          THEN /\ threads_in_current_batch' = threads
               /\ failed' = TRUE
               /\ UNCHANGED <<batch_posts, all_posts, flushes>>
          ELSE IF store
          THEN /\ flushes' = Append(flushes,
                                   [kind |-> "threshold", size |-> size, ok |-> flushOk])
               /\ batch_posts' = IF flushOk THEN 0 ELSE size
               /\ threads_in_current_batch' = IF flushOk THEN 0 ELSE threads
               /\ failed' = (failed \/ ~flushOk)
               /\ all_posts' = all_posts + threadYields[threadIdx + 1]
          ELSE /\ batch_posts' = size
               /\ all_posts' = all_posts + threadYields[threadIdx + 1]
               /\ threads_in_current_batch' = threads
               /\ UNCHANGED <<flushes, failed>>
    /\ threadIdx' = threadIdx + 1
    /\ UNCHANGED <<batchCfg, threadYields, batchPc, outsideBatch>>

\* a scrape that returns after the loop without a last flush
ReturnWithoutFlush(flushOk) ==
    /\ batchPc = "threads"
    /\ threadIdx = Len(threadYields)
    /\ batchPc' = "done"
    /\ UNCHANGED <<batchCfg, threadYields, threadIdx, batch_posts, all_posts,
                   threads_in_current_batch, flushes, failed, outsideBatch>>

\* after the loop: "if batch_callback and batch_posts", outside any try
FinalFlush(flushOk) ==
    /\ batchPc = "threads"
    /\ threadIdx = Len(threadYields)
    /\ IF batchCfg.callback /\ batch_posts > 0
       THEN /\ flushes' = Append(flushes,
                                [kind |-> "final", size |-> batch_posts, ok |-> flushOk])
            /\ batchPc' = IF flushOk THEN "done" ELSE "raised"
            /\ failed' = (failed \/ ~flushOk)
       ELSE /\ batchPc' = "done"
            /\ UNCHANGED <<flushes, failed>>
    /\ UNCHANGED <<batchCfg, threadYields, threadIdx, batch_posts, all_posts,
                   threads_in_current_batch, outsideBatch>>

InitBatch ==
    /\ batchCfg \in [callback : BOOLEAN]
    /\ threadYields \in ScenarioSplits \cup SeqsUpTo(OtherYields, MaxThreads)
    /\ threadIdx = 0 /\ batch_posts = 0 /\ all_posts = 0
    /\ threads_in_current_batch = 0
    /\ flushes = << >> /\ batchPc = "threads" /\ failed = FALSE
    /\ posts = {} /\ news = {} /\ prices = {} /\ sinkOp = NoOp /\ sinkProc = "scraper"
    /\ IdleIngest /\ IdleClock /\ IdleScrape /\ IdleState /\ IdleLimiter
    /\ IdleExtra

NextBatch ==
    \/ \E raised \in BOOLEAN : \E flushOk \in BOOLEAN : ProcessThread(raised, flushOk)
    \/ \E flushOk \in BOOLEAN : FinalFlush(flushOk)

SpecBatch == InitBatch /\ [][NextBatch]_vars

\* the scenario: a callback, two threads yielding 150 posts together, no
\* thread scrape and no flush raising, the scrape finished
ScenarioDone ==
    /\ batchPc = "done"
    /\ batchCfg.callback
    /\ ~failed
    /\ Len(threadYields) = 2
    /\ threadYields[1] + threadYields[2] = ScenarioRecords

\* C10 as stated: with batch_size_posts = 100, 150 records over two threads
\* trigger, for every split, exactly one threshold flush and then one final
\* flush that carries the remainder.
C10_OneThresholdOneFinal ==
    ScenarioDone
        => /\ Len(flushes) = 2
           /\ flushes[1].kind = "threshold"
           /\ flushes[2].kind = "final"
           /\ flushes[2].size > 0
           /\ flushes[1].size + flushes[2].size = ScenarioRecords

\* C10 amended: the threshold is checked once per thread, after the thread's
\* posts were added.  When the first thread yields at least 100 and fewer
\* than all of the 150 records, one threshold flush carries the first
\* thread's records and one final flush carries the remainder; for every
\* other split a single threshold flush carries all 150 records and there
\* is no final flush.
C10_ScenarioFlushes ==
    ScenarioDone
        => LET a == threadYields[1]
           IN IF a >= BatchSizePosts /\ a < ScenarioRecords
              THEN flushes = <<[kind |-> "threshold", size |-> a, ok |-> TRUE],
                               [kind |-> "final", size |-> ScenarioRecords - a, ok |-> TRUE]>>
              ELSE flushes = <<[kind |-> "threshold", size |-> ScenarioRecords, ok |-> TRUE]>>

C10_Witness ==
    /\ ScenarioDone
    /\ threadYields = <<100, 50>>
    /\ Len(flushes) = 2
    /\ flushes[2] = [kind |-> "final", size |-> 50, ok |-> TRUE]

----------------------------------------------------------------------------
(* The identity of an announcement in the news sink *)

SameAnnouncement(a, b) == a.k = b.k /\ a.source = b.source

\* C11: two announcements are the same record exactly when they agree on
\* ticker, source, headline and published_at: after a batch is upserted,
\* every announcement of it is stored under its own four-field key (two that
\* differ only in source are two records), and a stored record with another
\* key than every announcement of the batch is left as it was.
C11_AnnouncementIdentity ==
    (sinkOp.kind = "news" /\ ~sinkOp.conflict)
        => /\ \A i \in 1..Len(sinkOp.batch) :
                 \E r \in news : SameAnnouncement(r, sinkOp.batch[i])
           /\ \A r \in sinkOp.before :
                 (\A i \in 1..Len(sinkOp.batch) : ~SameAnnouncement(r, sinkOp.batch[i]))
                     => r \in news

----------------------------------------------------------------------------
(* robots.txt checks: scraper/utils/robots.py *)

cache_ttl == 3600

RobotsClockPoints == {10000, 11800, 13600}

Paths == {"/forum", "/private"}

\* What fetching /robots.txt can do: a document with its Disallow rules for
\* every agent, an HTTP error status, a network error, or bytes that are
\* not UTF-8.
ReadOutcomes ==
    [kind : {"ok"}, rules : {{}, {"/private"}}]
        \cup [kind : {"http_401_403", "http_4xx", "http_5xx",
                      "network_error", "decode_error"}, rules : {{}}]

ReadRaises(outcome) == outcome.kind \in {"network_error", "decode_error"}

\* RobotFileParser.read() for the outcomes that do not raise: 401/403 set
\* disallow_all, other 4xx set allow_all, 5xx sets nothing, and a document
\* is parsed (which marks the parser as checked).
ReadParser(outcome) ==
    [present |-> TRUE,
     disallow_all |-> outcome.kind = "http_401_403",
     allow_all |-> outcome.kind = "http_4xx",
     last_checked |-> outcome.kind = "ok",
     disallowed |-> outcome.rules]

\* RobotFileParser.can_fetch(user_agent, url)
ParserCanFetch(parser, path) ==
    IF parser.disallow_all THEN FALSE
    ELSE IF parser.allow_all THEN TRUE
    ELSE IF ~parser.last_checked THEN FALSE
    ELSE path \notin parser.disallowed

CacheFresh(cache, checked, now, a) ==
    cache[a].present /\ now - checked[a] < cache_ttl

\* RobotsChecker.can_fetch(url): the answer and the caches it leaves
CanFetchResult(cache, checked, now, a, path, outcome) ==
    IF CacheFresh(cache, checked, now, a)
    THEN [answer |-> ParserCanFetch(cache[a], path), read |-> "none",
          cache |-> cache, checked |-> checked]
    ELSE IF ReadRaises(outcome)
    THEN [answer |-> TRUE, read |-> outcome.kind,
          cache |-> cache, checked |-> checked]
    ELSE [answer |-> ParserCanFetch(ReadParser(outcome), path), read |-> outcome.kind,
          cache |-> [cache EXCEPT ![a] = ReadParser(outcome)],
          checked |-> [checked EXCEPT ![a] = now]]

CanFetch(a, path, outcome) ==
    LET r == CanFetchResult(parser_cache, last_check, clock, a, path, outcome) IN
    /\ parser_cache' = r.cache
    /\ last_check' = r.checked
    /\ robotsCall' = [kind |-> "can_fetch", authority |-> a, path |-> path,
                      read |-> r.read, cached |-> parser_cache[a].present,
                      expired |-> parser_cache[a].present
                                    /\ ~CacheFresh(parser_cache, last_check, clock, a),
                      answer |-> r.answer]
    /\ UNCHANGED <<clock, outsideRobots>>

\* check_robots_txt(url): a new RobotsChecker per call, so its caches are empty
CheckRobotsTxt(a, path, outcome) ==
    LET r == CanFetchResult([x \in Authorities |-> NoParser],
                            [x \in Authorities |-> 0], clock, a, path, outcome) IN
    /\ robotsCall' = [kind |-> "check_robots_txt", authority |-> a, path |-> path,
                      read |-> r.read, cached |-> FALSE, expired |-> FALSE,
                      answer |-> r.answer]
    /\ UNCHANGED <<parser_cache, last_check, clock, outsideRobots>>

RobotsTick ==
    /\ \E t \in RobotsClockPoints : t > clock /\ clock' = t
    /\ UNCHANGED <<robotsVars, outsideRobots>>

InitRobots ==
    /\ IdleRobots
    /\ clock = 10000
    /\ IdleCore
    /\ IdlePace /\ IdleParse
    /\ IdleTail

NextRobots ==
    \/ \E a \in Authorities, path \in Paths, outcome \in ReadOutcomes :
            CanFetch(a, path, outcome)
    \/ \E a \in Authorities, path \in Paths, outcome \in ReadOutcomes :
            CheckRobotsTxt(a, path, outcome)
    \/ RobotsTick

SpecRobots == InitRobots /\ [][NextRobots]_vars

FailedReads == {"http_401_403", "http_4xx", "http_5xx", "network_error", "decode_error"}

\* C12: whenever the robots.txt of the URL's authority cannot be fetched or
\* cannot be parsed, can_fetch answers true (allow), also when an expired
\* cache entry for that authority disallowed the URL.
C12_FailsOpen ==
    robotsCall.read \in FailedReads => robotsCall.answer

----------------------------------------------------------------------------
(* Request pacing: scraper/utils/delay.py and the scrapers' fetch methods *)

MaxRequests == 6

PoliteMin == 3

PoliteMax == 8

\* polite_delay() sleeps random.uniform(min_seconds, max_seconds); the two
\* ends of the interval stand for it
PoliteDelays == {PoliteMin, PoliteMax}

Request(s, kind, at, ok) == [scraper |-> s, kind |-> kind, at |-> at, ok |-> ok]

\* _fetch_with_requests of the Nordnet and Avanza scrapers followed by the
\* browser fallback of fetch(): robots.txt is requested, then the page, and
\* polite_delay() runs only after a response that did not raise.
RequestsThenBrowser(s, allowed, ok, browser, d) ==
    LET robots == <<Request(s, "robots", clock, TRUE)>>
        page == <<Request(s, "http", clock, ok)>>
        after == IF allowed /\ ok THEN clock + d ELSE clock
        selenium == IF allowed /\ ok /\ browser
                    THEN <<Request(s, "browser", after, TRUE)>> ELSE << >>
    IN /\ Len(paceLog) + 3 <= MaxRequests
       /\ paceLog' = paceLog \o robots \o (IF allowed THEN page ELSE << >>) \o selenium
       /\ clock' = after
       /\ UNCHANGED outsidePace

NordnetFetch(allowed, ok, browser, d) == RequestsThenBrowser("nordnet", allowed, ok, browser, d)

AvanzaFetch(allowed, ok, browser, d) == RequestsThenBrowser("avanza", allowed, ok, browser, d)

\* HegnarScraper.fetch: robots.txt, then polite_delay(), then the request
HegnarFetch(allowed, ok, d) ==
    /\ Len(paceLog) + 3 <= MaxRequests
    /\ paceLog' = paceLog \o <<Request("hegnar", "robots", clock, TRUE)>>
                      \o (IF allowed THEN <<Request("hegnar", "http", clock + d, ok)>>
                          ELSE << >>)
    /\ clock' = IF allowed THEN clock + d ELSE clock
    /\ UNCHANGED outsidePace

InitPace ==
    /\ paceLog = << >>
    /\ clock = 0
    /\ IdleCore
    /\ IdleRobots /\ IdleParse
    /\ IdleTail

NextPace ==
    \/ \E allowed \in BOOLEAN, ok \in BOOLEAN, browser \in BOOLEAN, d \in PoliteDelays :
            NordnetFetch(allowed, ok, browser, d)
    \/ \E allowed \in BOOLEAN, ok \in BOOLEAN, browser \in BOOLEAN, d \in PoliteDelays :
            AvanzaFetch(allowed, ok, browser, d)
    \/ \E allowed \in BOOLEAN, ok \in BOOLEAN, d \in PoliteDelays :
            HegnarFetch(allowed, ok, d)

SpecPace == InitPace /\ [][NextPace]_vars

\* C13: any two page requests a scraper sends to its origin, over HTTP or
\* through the browser, are separated by at least the minimum polite delay,
\* also when the earlier of the two failed.
C13_PacedRequests ==
    \A i \in 1..Len(paceLog), j \in 1..Len(paceLog) :
        (/\ i < j
         /\ paceLog[i].scraper = paceLog[j].scraper
         /\ paceLog[i].kind # "robots" /\ paceLog[j].kind # "robots")
            => paceLog[j].at - paceLog[i].at >= PoliteMin

----------------------------------------------------------------------------
(* The fetch state under updates only: no reset_source, no reset_all *)

\* update_last_backfill_timestamp(source, timestamp)
UpdateLastBackfillTimestamp(source, timestamp, saved) ==
    /\ LET loaded == LoadState(stateFile)
           state  == IF source \in DOMAIN loaded THEN loaded
                     ELSE [src \in DOMAIN loaded \cup {source} |->
                              IF src = source THEN DefaultSourceState ELSE loaded[src]]
           state2 == [state EXCEPT ![source].last_backfill_ts = IsoFormat(timestamp)]
       IN stateFile' = SaveState(stateFile, state2, saved)
    /\ UNCHANGED <<window, lastCycle, clock, outsideState>>

InitCounters ==
    /\ stateFile \in {MissingFile, SaveState(MissingFile, CreateDefaultState, "ok")}
    /\ window = NoWindow
    /\ lastCycle = NoCycle
    /\ clock = 0
    /\ IdleSink /\ IdleIngest /\ IdleScrape /\ IdleLimiter /\ IdleBatch
    /\ IdleExtra

NextCounters ==
    \/ \E source \in Sources : \E timestamp \in TimestampArgs(clock) :
          \E saved \in SaveOutcomes : UpdateLastFetchTimestamp(source, timestamp, saved)
    \/ \E source \in Sources : \E timestamp \in TimestampArgs(clock) :
          \E saved \in SaveOutcomes : UpdateLastBackfillTimestamp(source, timestamp, saved)
    \/ \E source \in Sources : GetIncrementalFetchParams(source)

SpecCounters == InitCounters /\ [][NextCounters]_vars

\* the total_fetches the manager reads for a source
TotalFetches(file, source) ==
    IF source \in DOMAIN LoadState(file) THEN LoadState(file)[source].total_fetches ELSE 0

\* the source has something recorded: a fetch, a backfill or a count
HasRecordedState(file, source) ==
    /\ source \in DOMAIN LoadState(file)
    /\ LoadState(file)[source] # DefaultSourceState

\* C14: with no reset among the operations, no step lowers a source's
\* total_fetches, every update_last_fetch_timestamp raises the count of its
\* source by exactly 1, and a source with recorded state keeps having
\* recorded state, also when the state file cannot be read or written.
C14_CountersNeverLost ==
    [][/\ \A source \in Sources :
            /\ TotalFetches(stateFile', source) >= TotalFetches(stateFile, source)
            /\ HasRecordedState(stateFile, source) => HasRecordedState(stateFile', source)
       /\ \A source \in Sources :
            (\E timestamp \in TimestampArgs(clock), saved \in SaveOutcomes :
                 UpdateLastFetchTimestamp(source, timestamp, saved))
                => TotalFetches(stateFile', source) = TotalFetches(stateFile, source) + 1
      ]_vars

----------------------------------------------------------------------------
(* The posts table over a sequence of ScraperPersistence operations *)

MaxFlushBatch == 2

\* the posts one scraper produces: all of one forum
FlushRows == {r \in PostRows : r.forum_id = 1}

\* cleanup_old_posts(days_old): delete the posts whose timestamp is before
\* the cutoff and commit; any error is logged and 0 is returned.  old are the
\* values of the mutable fields whose timestamp lies before the cutoff.
CleanupOldPosts(old, ok) ==
    LET deleted == IF ok THEN {r \in posts : r.ver \in old} ELSE {}
    IN /\ posts' = posts \ deleted
       /\ sinkOp' = [kind |-> "cleanup", batch |-> << >>, before |-> posts,
                     raced |-> {}, outcome |-> "returned",
                     count |-> Cardinality(deleted), marks |-> << >>,
                     conflict |-> FALSE]
       /\ UNCHANGED <<news, prices, sinkProc, outsideSink>>

InitRetention ==
    /\ IdleSink
    /\ IdleIngest /\ IdleClock /\ IdleScrape /\ IdleState /\ IdleLimiter /\ IdleBatch
    /\ IdleExtra

NextRetention ==
    \/ \E batch \in SeqsUpTo(FlushRows, MaxFlushBatch) :
          \E raced \in RacedPosts(posts) : UpsertPosts(batch, raced)
    \/ \E old \in SUBSET Vers : \E ok \in BOOLEAN : CleanupOldPosts(old, ok)

SpecRetention == InitRetention /\ [][NextRetention]_vars

PostKeys(table) == {<<r.forum_id, r.post_id>> : r \in table}

\* C15: no operation deletes a stored post: over every step the set of
\* stored post identity keys only grows.
C15_PostsNeverDeleted ==
    [][PostKeys(posts) \subseteq PostKeys(posts')]_vars

\* C16: each batch flush is its own transaction: when a flush fails, none of
\* the records of that batch is stored by it, and every record stored before
\* it, by earlier flushes, remains stored.
C16_FailedFlushStoresNothing ==
    (sinkOp.kind = "posts" /\ sinkOp.outcome = "raised")
        => /\ sinkOp.before \subseteq posts
           /\ \A i \in 1..Len(sinkOp.batch) :
                 sinkOp.batch[i] \in posts
                    => sinkOp.batch[i] \in sinkOp.before \cup sinkOp.raced

\* a flush of two records fails after an earlier flush stored something,
\* and one of its records is new and in conflict with nothing stored
C16_Witness ==
    /\ sinkOp.kind = "posts" /\ sinkOp.outcome = "raised"
    /\ Len(sinkOp.batch) = 2
    /\ sinkOp.before # {}
    /\ \E i \in 1..2 :
          \A r \in sinkOp.before \cup sinkOp.raced : r.post_id # sinkOp.batch[i].post_id

\* C17: cancellation is acted on at loop boundaries only: a shutdown signal
\* that arrives while a fetch is in flight does not abort that fetch, so a
\* cancelled run has no fetch that stopped before it was done.
C17_CancelAtLoopBoundary ==
    runExit = "cancelled" => fetch.pc \in {"Idle", "Done"}

----------------------------------------------------------------------------
(* The parsers: ticker resolution and container selection.  A text is a     *)
(* sequence of words; a word carries what the regular expressions look at.  *)

MaxWords == 3

\* text: the word; up: text.upper(); len: its length; upper: whether it is
\* made of the letters A-Z only; head6: its first six letters
Word(text, up, len, upper, head6) ==
    [text |-> text, up |-> up, len |-> len, upper |-> upper, head6 |-> head6]

Words ==
    {Word("AKER", "AKER", 4, TRUE, "AKER"),
     Word("DN", "DN", 2, TRUE, "DN"),
     Word("TSLA", "TSLA", 4, TRUE, "TSLA"),
     Word("THE", "THE", 3, TRUE, "THE"),
     Word("AND", "AND", 3, TRUE, "AND"),
     Word("buy", "BUY", 3, FALSE, "buy"),
     Word("AKOBO", "AKOBO", 5, TRUE, "AKOBO"),
     Word("MINERALS", "MINERALS", 8, TRUE, "MINERA")}

\* the first of the indices idx, or 0 when there is none
FirstIndex(idx) ==
    IF idx = {} THEN 0 ELSE CHOOSE i \in idx : \A j \in idx : i <= j

\* re.search(r"([A-Z]{3,6})", ticker_decoded): the leftmost run of three or
\* more capitals, cut after six
HegnarTagSymbol(tag) ==
    LET i == FirstIndex({k \in 1..Len(tag) : tag[k].upper /\ tag[k].len >= 3})
    IN IF i = 0 THEN "none" ELSE tag[i].head6

\* _parse_post_container of the Hegnar parser, the ticker: the post's own
\* ticker link first, the thread ticker when that gave nothing.  Of a post
\* without a ticker link the tag is the empty text.
HegnarPostTicker(tag, thread_ticker) ==
    IF HegnarTagSymbol(tag) # "none" THEN HegnarTagSymbol(tag) ELSE thread_ticker

\* the words of a text at the indices idx, in the order of the text
WordsAt(text, idx) ==
    [k \in 1..Cardinality(idx) |->
        text[CHOOSE i \in idx : Cardinality({j \in idx : j <= i}) = k]]

\* the common_words of PlaceraScraper._extract_tickers
CommonWords ==
    {"THE", "AND", "FOR", "ARE", "YOU", "ALL", "HER", "HIS", "ITS", "OUR",
     "VAR", "OCH", "ATT"}

\* PlaceraScraper._extract_tickers: findall of \b[A-Z]{2,4}\b over
\* text.upper(), minus the common words, duplicates dropped in order
AvanzaExtractTickers(text) ==
    LET Found(i) == /\ text[i].len >= 2 /\ text[i].len <= 4
                    /\ text[i].up \notin CommonWords
        kept == {i \in 1..Len(text) :
                    /\ Found(i)
                    /\ \A j \in 1..(i - 1) : Found(j) => text[j].up # text[i].up}
        ws == WordsAt(text, kept)
    IN [k \in 1..Len(ws) |-> ws[k].up]

\* PlaceraScraper._extract_post, the ticker: the destination label, else the
\* first ticker of the body; "none" when the post is skipped for having none
AvanzaPostTicker(label, text) ==
    IF label # "none" THEN label
    ELSE IF AvanzaExtractTickers(text) = << >> THEN "none"
    ELSE AvanzaExtractTickers(text)[1]

\* NordnetScraper._parse_post_container, the ticker of a container without a
\* ticker element: ticker_pattern.search over its text, \b[A-Z]{2,6}\b
NordnetBodyTicker(text) ==
    LET Symbol(w) == w.upper /\ w.len >= 2 /\ w.len <= 6
        i == FirstIndex({k \in 1..Len(text) : Symbol(text[k])})
    IN IF i = 0 THEN "none" ELSE text[i].text

(* Documents: the elements of a page that a container selector can match.  *)
(* sel: "primary" for the parser's own container, "fallback" for one only  *)
(* the fallback selectors match, "other" for one no container selector     *)
(* matches; content: whether it holds the content element; label: the     *)
(* text of its ticker element; body: the text of the content element.      *)

MaxContainers == 2

ElementBodies == {<<Word("TSLA", "TSLA", 4, TRUE, "TSLA")>>,
                  <<Word("MINERALS", "MINERALS", 8, TRUE, "MINERA")>>}

Elements ==
    [sel : {"primary", "fallback", "other"}, content : BOOLEAN,
     label : {"none", "TSLA"}, body : ElementBodies]

Documents == SeqsUpTo(Elements, MaxContainers)

\* how many elements of the document a selector for the kinds sels matches
CountMatching(doc, sels) == Cardinality({i \in 1..Len(doc) : doc[i].sel \in sels})

\* the div.post-body inside an element: as an element of its own it has no
\* content element and no ticker element below it
PostBodyDiv(e) == [sel |-> "body", content |-> FALSE, label |-> "none", body |-> e.body]

\* PlaceraScraper._extract_post: 1 when a Post is returned, 0 when None
AvanzaExtractPost(c) ==
    IF ~c.content THEN 0
    ELSE IF AvanzaPostTicker(c.label, c.body) = "none" THEN 0
    ELSE 1

\* PlaceraScraper.parse.  Primary: article.post-card.  Fallback: every div
\* or article whose class matches post|message|comment|thread, which a
\* div.post-body does as well, wherever it is.
AvanzaParse(doc) ==
    LET IsPrimary(e) == e.sel = "primary"
        primary == CountMatching(doc, {"primary"})
        alt == {i \in 1..Len(doc) : doc[i].sel \in {"primary", "fallback"}}
        inner == {i \in 1..Len(doc) : doc[i].content}
        used == primary = 0
        got == IF ~used
               THEN Cardinality({i \in 1..Len(doc) :
                        IsPrimary(doc[i]) /\ AvanzaExtractPost(doc[i]) = 1})
               ELSE Cardinality({i \in alt : AvanzaExtractPost(doc[i]) = 1})
                    + Cardinality({i \in inner : AvanzaExtractPost(PostBodyDiv(doc[i])) = 1})
    IN [records |-> got, primary |-> primary,
        fallback |-> Cardinality(alt) + Cardinality(inner), used_fallback |-> used]

\* NordnetScraper.parse.  The elements lie in the section that is searched;
\* a ul counts as that section, so the section is there whenever an li is.
\* Primary: li of the styled list class.  Fallback: any li, and when there
\* is none, article elements ("other").  _parse_post_container returns a
\* Post for every container.
NordnetParse(doc, section) ==
    LET found == section \/ CountMatching(doc, {"primary", "fallback"}) > 0
        primary == IF found THEN CountMatching(doc, {"primary"}) ELSE 0
        lis == IF found THEN CountMatching(doc, {"primary", "fallback"}) ELSE 0
        articles == IF found THEN CountMatching(doc, {"other"}) ELSE 0
        alt == IF lis > 0 THEN lis ELSE articles
    IN [records |-> IF primary > 0 THEN primary ELSE alt,
        primary |-> primary, fallback |-> alt,
        used_fallback |-> found /\ primary = 0]

\* HegnarScraper._extract_individual_posts: the containers are the divs with
\* id post_<n>, and there is no other selector; _parse_post_container
\* returns None for a container without its content div
HegnarExtractIndividualPosts(doc) ==
    LET IsPrimary(e) == e.sel = "primary"
    IN [records |-> Cardinality({i \in 1..Len(doc) : IsPrimary(doc[i]) /\ doc[i].content}),
        primary |-> CountMatching(doc, {"primary"}),
        fallback |-> 0, used_fallback |-> FALSE]

ThreadTickers == {"none", "EQNR", "AKER"}

TagTexts == {t \in SeqsUpTo(Words, 2) : \A i \in 1..Len(t) : t[i].text # "buy"}

BodyTexts == SeqsUpTo(Words, MaxWords)

ParseInput(fn, tag, hint, text, doc, section) ==
    [NoParse EXCEPT !.fn = fn, !.tag = tag, !.hint = hint, !.body = text,
                    !.doc = doc, !.used_fallback = section]

ParseInputs ==
    {ParseInput("hegnar_ticker", tag, hint, << >>, << >>, FALSE) :
        tag \in TagTexts, hint \in ThreadTickers}
    \cup {ParseInput(fn, << >>, "none", text, << >>, FALSE) :
            fn \in {"avanza_body", "nordnet_body"}, text \in BodyTexts}
    \cup {ParseInput(fn, << >>, "none", << >>, doc, FALSE) :
            fn \in {"avanza_parse", "hegnar_parse"}, doc \in Documents}
    \cup {ParseInput("nordnet_parse", << >>, "none", << >>, doc, section) :
            doc \in Documents, section \in BOOLEAN}

TickerOutput(fn, ticker) == [NoParse EXCEPT !.fn = fn, !.ticker = ticker]

RecordsOutput(fn, r) ==
    [NoParse EXCEPT !.fn = fn, !.records = r.records, !.primary = r.primary,
                    !.fallback = r.fallback, !.used_fallback = r.used_fallback]

Pending(fn) == parseIn.fn = fn /\ parseOut = NoParse

ResolveHegnarTicker ==
    /\ Pending("hegnar_ticker")
    /\ parseOut' = TickerOutput("hegnar_ticker", HegnarPostTicker(parseIn.tag, parseIn.hint))
    /\ UNCHANGED <<parseIn, outsideParse>>

ResolveAvanzaBody ==
    /\ Pending("avanza_body")
    /\ parseOut' = TickerOutput("avanza_body", AvanzaPostTicker("none", parseIn.body))
    /\ UNCHANGED <<parseIn, outsideParse>>

ResolveNordnetBody ==
    /\ Pending("nordnet_body")
    /\ parseOut' = TickerOutput("nordnet_body", NordnetBodyTicker(parseIn.body))
    /\ UNCHANGED <<parseIn, outsideParse>>

ParseAvanza ==
    /\ Pending("avanza_parse")
    /\ parseOut' = RecordsOutput("avanza_parse", AvanzaParse(parseIn.doc))
    /\ UNCHANGED <<parseIn, outsideParse>>

ParseNordnet ==
    /\ Pending("nordnet_parse")
    /\ parseOut' = RecordsOutput("nordnet_parse",
                                 NordnetParse(parseIn.doc, parseIn.used_fallback))
    /\ UNCHANGED <<parseIn, outsideParse>>

ParseHegnar ==
    /\ Pending("hegnar_parse")
    /\ parseOut' = RecordsOutput("hegnar_parse", HegnarExtractIndividualPosts(parseIn.doc))
    /\ UNCHANGED <<parseIn, outsideParse>>

InitParse ==
    /\ parseIn \in ParseInputs
    /\ parseOut = NoParse
    /\ IdleCore /\ IdleClock
    /\ IdleRobots /\ IdlePace
    /\ IdleTail

NextParse ==
    \/ ResolveHegnarTicker
    \/ ResolveAvanzaBody
    \/ ResolveNordnetBody
    \/ ParseAvanza
    \/ ParseNordnet
    \/ ParseHegnar

SpecParse == InitParse /\ [][NextParse]_vars

\* the tag is one symbol: two to six capital letters
IsSymbolTag(tag) ==
    Len(tag) = 1 /\ tag[1].upper /\ tag[1].len >= 2 /\ tag[1].len <= 6

\* C18: whenever a record carries its own ticker tag that matches the symbol
\* pattern, the resolved ticker is that tag, whatever the thread-level hint
\* is; the hint is used only when the record has no matching tag of its own.
C18_PostTagBeforeThreadHint ==
    (parseOut.fn = "hegnar_ticker" /\ IsSymbolTag(parseIn.tag))
        => parseOut.ticker = parseIn.tag[1].text

\* the first capital token of two to six letters that is no stopword
FirstSurvivingToken(text) ==
    LET Survives(w) == /\ w.upper /\ w.len >= 2 /\ w.len <= 6
                       /\ w.text \notin CommonWords
        i == FirstIndex({k \in 1..Len(text) : Survives(text[k])})
    IN IF i = 0 THEN "none" ELSE text[i].text

\* C19: when a record has neither its own ticker tag nor a thread-level
\* hint, the resolved ticker is the first uppercase token of the body that
\* is not in the stopword set, in every parser that scans the body ("THE
\* AND TSLA" resolves to "TSLA").
C19_StopwordFiltering ==
    parseOut.fn \in {"avanza_body", "nordnet_body"}
        => parseOut.ticker = FirstSurvivingToken(parseIn.body)

\* every element of the document holds a body and names a ticker
CompleteElements(doc) ==
    \A i \in 1..Len(doc) : doc[i].content /\ doc[i].label # "none"

\* C20: for every site parser, a document in which the primary container
\* selector matches nothing and the fallback selectors match exactly one
\* container yields exactly one record, and the fallback selectors are
\* consulted only when the primary selector matched nothing.
C20_FallbackYieldsOneRecord ==
    (parseOut.fn \in {"avanza_parse", "nordnet_parse", "hegnar_parse"}
        /\ CompleteElements(parseIn.doc))
        => /\ (parseOut.primary = 0 /\ parseOut.fallback = 1) => parseOut.records = 1
           /\ parseOut.used_fallback => parseOut.primary = 0

----------------------------------------------------------------------------
(* The parsers' loops over the containers of one page.  An item is a link   *)
(* or container of the page, with what its extraction does: it gives a      *)
(* Post, it gives None, or a statement in it raises.                        *)

MaxItems == 3

ExtractOutcomes == {"post", "none", "raises"}

Items(kind, outs) ==
    [i \in 1..Len(outs) |-> [kind |-> kind, id |-> i, outcome |-> outs[i]]]

\* a loop that stops at the first item whose extraction raises
ExtractedUntilError(items) ==
    LET bad == {i \in 1..Len(items) : items[i].outcome = "raises"}
        stop == IF bad = {} THEN Len(items) + 1 ELSE CHOOSE i \in bad : \A j \in bad : i <= j
    IN WordsAt(items, {i \in 1..(stop - 1) : items[i].outcome = "post"})

\* for item in items: try: post = extract(item); if post: posts.append(post)
\* except Exception: continue.  The extract functions wrap their own body in
\* try/except and return None, so an error inside one counts as None.
ExtractedPosts(items) ==
    WordsAt(items, {i \in 1..Len(items) : items[i].outcome = "post"})

\* HegnarScraper.parse: the thread links of the index, then the post
\* containers, all inside one try
HegnarParseRecords(links, containers) ==
    ExtractedPosts(links) \o ExtractedPosts(containers)

\* NordnetScraper.parse, the loop over post_containers
NordnetParseRecords(containers) == ExtractedPosts(containers)

\* PlaceraScraper.parse, the loop over post_containers
AvanzaParseRecords(containers) == ExtractedPosts(containers)

OutcomeSeqs == SeqsUpTo(ExtractOutcomes, MaxItems)

RecordsInputs ==
    {[NoParse EXCEPT !.fn = "hegnar_records", !.links = Items("link", l),
                     !.containers = Items("container", c)] :
        l \in SeqsUpTo(ExtractOutcomes, 1), c \in OutcomeSeqs}
    \cup {[NoParse EXCEPT !.fn = fn, !.containers = Items("container", c)] :
            fn \in {"nordnet_records", "avanza_records"}, c \in OutcomeSeqs}

ParseHegnarPage ==
    /\ Pending("hegnar_records")
    /\ parseOut' = [NoParse EXCEPT !.fn = "hegnar_records",
                        !.returned = HegnarParseRecords(parseIn.links, parseIn.containers)]
    /\ UNCHANGED <<parseIn, outsideParse>>

ParseNordnetPage ==
    /\ Pending("nordnet_records")
    /\ parseOut' = [NoParse EXCEPT !.fn = "nordnet_records",
                        !.returned = NordnetParseRecords(parseIn.containers)]
    /\ UNCHANGED <<parseIn, outsideParse>>

ParseAvanzaPage ==
    /\ Pending("avanza_records")
    /\ parseOut' = [NoParse EXCEPT !.fn = "avanza_records",
                        !.returned = AvanzaParseRecords(parseIn.containers)]
    /\ UNCHANGED <<parseIn, outsideParse>>

InitPages ==
    /\ parseIn \in RecordsInputs
    /\ parseOut = NoParse
    /\ IdleCore /\ IdleClock
    /\ IdleRobots /\ IdlePace
    /\ IdleTail

NextPages == ParseHegnarPage \/ ParseNordnetPage \/ ParseAvanzaPage

SpecPages == InitPages /\ [][NextPages]_vars

PageItems == Range(parseIn.links) \cup Range(parseIn.containers)

PageParsed == parseOut.fn \in {"hegnar_records", "nordnet_records", "avanza_records"}

----------------------------------------------------------------------------
(* The end of a batched scrape *)

RECURSIVE FlushedTotal(_)
FlushedTotal(fs) == IF fs = << >> THEN 0 ELSE Head(fs).size + FlushedTotal(Tail(fs))

CycleEndedClean ==
    /\ batchPc = "done"
    /\ batchCfg.callback
    /\ \A i \in 1..Len(flushes) : flushes[i].ok

\* C22: a final flush always runs at the end of a cycle: when a cycle with a
\* configured sink ends and no flush has failed, nothing is left pending
\* and the flushes together carry every record collected in the cycle, each
\* once.
C22_FinalFlushRuns ==
    CycleEndedClean
        => /\ FlushedTotal(flushes) = all_posts
           /\ batch_posts > 0
                 => /\ flushes # << >>
                    /\ flushes[Len(flushes)] =
                          [kind |-> "final", size |-> batch_posts, ok |-> TRUE]

\* a cycle that ends with a threshold flush, a thread scrape that raised,
\* and a final flush of the remainder
C22_Witness ==
    /\ CycleEndedClean
    /\ failed
    /\ Len(flushes) = 2
    /\ flushes[1].kind = "threshold"
    /\ flushes[2].kind = "final" /\ flushes[2].size > 0

----------------------------------------------------------------------------
(* The robots cache on the fetch path *)

\* C23: robots rules are cached per authority for cache_ttl: of two checks
\* made by the fetch path for the same authority less than cache_ttl apart
\* only the first fetches robots.txt, the second is answered from the cache.
C23_FetchPathReadsOnce ==
    [][(/\ robotsCall.kind = "check_robots_txt"
        /\ robotsCall.read = "ok"
        /\ robotsCall'.kind = "check_robots_txt"
        /\ robotsCall'.authority = robotsCall.authority
        /\ robotsCall' # robotsCall
        /\ clock' = clock)
            => robotsCall'.read = "none"]_vars

----------------------------------------------------------------------------
(* The rate limiter under the tasks of asyncio.gather.  _rate_limit_wait    *)
(* is a plain function without an await, so the tasks of one event loop     *)
(* run it one after the other: every order of the tasks is an order of      *)
(* whole RateLimitWait steps.                                               *)

\* releases within the sliding window that ends at release i
ReleasedInWindowAt(i) ==
    Cardinality({j \in 1..Len(released) :
                    released[j] <= released[i] /\ released[i] - released[j] < Window})

\* the stamp of the latest call is the last entry of the list
StampRecorded ==
    lastCall # NoCall
        => /\ call_timestamps # << >>
           /\ call_timestamps[Len(call_timestamps)] = lastCall.arrived

\* C24: the limiter is correct under concurrency: in every order in which
\* the tasks check the window and record their call, no sliding minute holds
\* more released calls than the cap, and the timestamp a call records is
\* not lost.
C24_CapUnderEveryInterleaving ==
    /\ \A i \in 1..Len(released) : ReleasedInWindowAt(i) <= RateCap(limiter)
    /\ StampRecorded

----------------------------------------------------------------------------
(* The browser of the announcements path: OsloBorsScraper and               *)
(* NordicAnnouncementsFetcher.fetch_oslo_bors_newsweb.                      *)

MaxAnnouncements == 3

DriverOutcomes == {"create_failed", "ok", "timeout", "error"}

\* setup_driver(); try: ... finally: self.cleanup() -- what one method of
\* the scraper leaves of the scraper's driver bookkeeping
WithDriver(w, op, outcome) ==
    [w EXCEPT !.created = IF outcome = "create_failed" THEN @ ELSE @ + 1,
              !.driver = FALSE,
              !.log = Append(@, [op |-> op, outcome |-> outcome,
                                 fresh |-> outcome # "create_failed"])]

\* scraper = OsloBorsScraper(); raw_announcements =
\* scraper.search_announcements(issuer_id): n items with a url that pass the
\* date filter when the search worked, none otherwise
SearchAnnouncements(outcome, n) ==
    /\ newsweb.pc = "idle"
    /\ newsweb' = [WithDriver(newsweb, "search", outcome) EXCEPT
                      !.pc = "items",
                      !.pending = IF outcome = "ok" THEN n ELSE 0]
    /\ UNCHANGED outsideNewsweb

\* details = scraper.fetch_announcement_details(item["url"]) for the next item
FetchAnnouncementDetails(outcome) ==
    /\ newsweb.pc = "items"
    /\ newsweb.pending > 0
    /\ newsweb' = [WithDriver(newsweb, "details", outcome) EXCEPT
                      !.pending = @ - 1]
    /\ UNCHANGED outsideNewsweb

\* fetch_oslo_bors_newsweb returns the announcements
ReturnAnnouncements ==
    /\ newsweb.pc = "items"
    /\ newsweb.pending = 0
    /\ newsweb' = [newsweb EXCEPT !.pc = "done"]
    /\ UNCHANGED outsideNewsweb

InitNewsweb ==
    /\ IdleNewsweb
    /\ IdleCore /\ IdleClock
    /\ IdleRobots /\ IdlePace /\ IdleParse
    /\ IdlePaging /\ IdleWriters /\ IdleRetry

NextNewsweb ==
    \/ \E outcome \in DriverOutcomes, n \in 0..MaxAnnouncements :
            SearchAnnouncements(outcome, n)
    \/ \E outcome \in DriverOutcomes : FetchAnnouncementDetails(outcome)
    \/ ReturnAnnouncements

SpecNewsweb == InitNewsweb /\ [][NextNewsweb]_vars

\* C25: the headless-browser session is created lazily and reused: at most
\* one session is created per run, and every browser fetch after the first
\* uses the session the first one created, also after a browser timeout on
\* an earlier URL.
C25_OneSessionPerRun ==
    /\ newsweb.created <= 1
    /\ \A i \in 2..Len(newsweb.log) :
            (\E j \in 1..(i - 1) : newsweb.log[j].fresh) => ~newsweb.log[i].fresh

----------------------------------------------------------------------------
(* The page loops of the listing scrapes: HegnarScraper.scrape_forum_index, *)
(* NordnetScraper.scrape_ticker_posts, PlaceraScraper.get_forum_posts.      *)

MaxPages == 3

RecordIds == {"p1", "p2"}

\* the scrape is called with max_pages
StartListing(max_pages) ==
    /\ paging.pc = "idle"
    /\ paging' = [NoPaging EXCEPT !.pc = "pages", !.max_pages = max_pages]
    /\ UNCHANGED outsidePaging

\* one pass of "for page in range(1, max_pages + 1)": the page is fetched
\* and parsed, its posts are appended, and the loop breaks when the fetch
\* gave nothing or the page held no posts
ScrapePage(ok, records) ==
    /\ paging.pc = "pages"
    /\ Len(paging.log) < paging.max_pages
    /\ ~ok => records = {}
    /\ paging' = [paging EXCEPT
                     !.log = Append(@, [page |-> Len(paging.log) + 1, ok |-> ok,
                                        records |-> records,
                                        new |-> records \ paging.seen]),
                     !.seen = @ \cup records,
                     !.pc = IF ~ok \/ records = {} THEN "done" ELSE "pages"]
    /\ UNCHANGED outsidePaging

\* the range is exhausted: return posts
EndListing ==
    /\ paging.pc = "pages"
    /\ Len(paging.log) = paging.max_pages
    /\ paging' = [paging EXCEPT !.pc = "done"]
    /\ UNCHANGED outsidePaging

InitPaging ==
    /\ IdlePaging
    /\ IdleCore /\ IdleClock
    /\ IdleRobots /\ IdlePace /\ IdleParse
    /\ IdleNewsweb /\ IdleWriters /\ IdleRetry

NextPaging ==
    \/ \E max_pages \in 1..MaxPages : StartListing(max_pages)
    \/ \E ok \in BOOLEAN, records \in SUBSET RecordIds : ScrapePage(ok, records)
    \/ EndListing

SpecPaging == InitPaging /\ [][NextPaging]_vars

\* C26: the pages of a listing are requested in increasing order and at
\* most max_pages of them; once a page yields no record that was not
\* already seen in this listing, or a page fetch fails, no further page is
\* requested.
C26_StopsAtPageWithoutNewRecords ==
    /\ Len(paging.log) <= paging.max_pages
    /\ \A i \in 1..Len(paging.log) : paging.log[i].page = i
    /\ \A i \in 1..(Len(paging.log) - 1) :
            paging.log[i].ok /\ paging.log[i].new # {}

----------------------------------------------------------------------------
(* Updates of stored records by the sinks *)

\* the natural key of a record of the table the batch went to
SameNaturalKey(kind, a, b) ==
    IF kind = "posts" THEN a.post_id = b.post_id /\ a.forum_id = b.forum_id
    ELSE IF kind = "news" THEN a.k = b.k /\ a.source = b.source
    ELSE a.k = b.k

\* a batch without a concurrent writer in which no natural key occurs twice
PlainBatch ==
    /\ sinkOp.kind \in {"posts", "news", "prices"}
    /\ sinkOp.outcome = "returned"
    /\ sinkOp.raced = {}
    /\ ~sinkOp.conflict
    /\ \A i, j \in 1..Len(sinkOp.batch) :
          SameNaturalKey(sinkOp.kind, sinkOp.batch[i], sinkOp.batch[j]) => i = j

\* C27: when the natural key of an upserted record is already stored, then
\* after the upsert has returned the stored record carries the incoming
\* fields (committed), and a record no field of which differs stays as it
\* was.
C27_UpsertUpdatesStoredRecord ==
    PlainBatch =>
        \A i \in 1..Len(sinkOp.batch) :
            (\E r \in sinkOp.before : SameNaturalKey(sinkOp.kind, r, sinkOp.batch[i]))
                => /\ sinkOp.batch[i] \in SinkTable
                   /\ \A r \in SinkTable :
                         SameNaturalKey(sinkOp.kind, r, sinkOp.batch[i])
                            => r = sinkOp.batch[i]

----------------------------------------------------------------------------
(* The identity of a post *)

\* C28: post identity is scoped by forum: of two posts from different
\* forums with the same external post_id both are stored, and the upsert of
\* one neither changes nor blocks the other nor fails the batch.
C28_PostIdentityScopedByForum ==
    (/\ sinkOp.kind = "posts"
     /\ sinkOp.raced = {}
     /\ ~DupKeyInBatch(sinkOp.batch))
        => \A i \in 1..Len(sinkOp.batch) :
             \A r \in sinkOp.before \cup Range(sinkOp.batch) :
                (r.post_id = sinkOp.batch[i].post_id
                    /\ r.forum_id # sinkOp.batch[i].forum_id)
                    => /\ sinkOp.outcome = "returned"
                       /\ PostLookup(posts, sinkOp.batch[i]) # {}
                       /\ PostLookup(posts, r) # {}
                       /\ r \in sinkOp.before => r \in posts

----------------------------------------------------------------------------
(* Two processes that update the state file at the same time, each for its  *)
(* own source.  NewsStateManager takes no lock: a call is load_state, a     *)
(* change of the loaded dict, and save_state of the whole dict.             *)

WriterSource(w) == IF w = 1 THEN "openbb" ELSE "hegnar"

\* the dict of update_last_fetch_timestamp / update_last_backfill_timestamp
\* between load_state and save_state
UpdatedState(file, source, kind, timestamp) ==
    LET loaded == LoadState(file)
        state  == IF source \in DOMAIN loaded THEN loaded
                  ELSE [src \in DOMAIN loaded \cup {source} |->
                           IF src = source THEN DefaultSourceState ELSE loaded[src]]
    IN IF kind = "fetch"
       THEN [state EXCEPT ![source] =
                [last_fetch_ts |-> timestamp,
                 total_fetches |-> state[source].total_fetches + 1,
                 last_backfill_ts |-> state[source].last_backfill_ts]]
       ELSE [state EXCEPT ![source].last_backfill_ts = IsoFormat(timestamp)]

\* the call up to save_state: the file is read and the dict is changed
WriterLoad(w, kind, timestamp) ==
    /\ writers[w].pc = "idle"
    /\ writers' = [writers EXCEPT ![w] =
                      [pc |-> "loaded", kind |-> kind, ts |-> timestamp,
                       state |-> UpdatedState(stateFile, WriterSource(w), kind,
                                              timestamp)]]
    /\ UNCHANGED <<stateFile, outsideWriters>>

\* save_state(state): the whole dict replaces the file
WriterSave(w) ==
    /\ writers[w].pc = "loaded"
    /\ stateFile' = SaveState(stateFile, writers[w].state, "ok")
    /\ writers' = [writers EXCEPT ![w].pc = "done", ![w].state = << >>]
    /\ UNCHANGED outsideWriters

InitWriters ==
    /\ stateFile \in {MissingFile, SaveState(MissingFile, CreateDefaultState, "ok")}
    /\ window = NoWindow /\ lastCycle = NoCycle
    /\ clock = 0
    /\ IdleWriters
    /\ IdleSink /\ IdleIngest /\ IdleScrape /\ IdleLimiter /\ IdleBatch
    /\ IdleRobots /\ IdlePace /\ IdleParse
    /\ IdleNewsweb /\ IdlePaging /\ IdleRetry

NextWriters ==
    \/ \E w \in {1, 2}, kind \in {"fetch", "backfill"} :
          \E timestamp \in TimestampArgs(clock) : WriterLoad(w, kind, timestamp)
    \/ \E w \in {1, 2} : WriterSave(w)

SpecWriters == InitWriters /\ [][NextWriters]_vars

\* the file holds the update of writer w
UpdatePersisted(w) ==
    /\ stateFile.kind = "json"
    /\ WriterSource(w) \in DOMAIN stateFile.sources
    /\ LET e == stateFile.sources[WriterSource(w)]
       IN IF writers[w].kind = "fetch"
          THEN /\ ~e.last_fetch_ts.null
               /\ e.last_fetch_ts.text = writers[w].ts.t
               /\ e.total_fetches >= 1
          ELSE /\ ~e.last_backfill_ts.null
               /\ e.last_backfill_ts.text = writers[w].ts.t

\* C29: when an update of the fetch or backfill state of one source runs
\* concurrently with one of another source, then under every interleaving
\* of their load, modify and save steps both updates are in the file once
\* both calls have returned.
C29_BothUpdatesPersist ==
    (writers[1].pc = "done" /\ writers[2].pc = "done")
        => UpdatePersisted(1) /\ UpdatePersisted(2)

----------------------------------------------------------------------------
(* The retry of the price fetch: the tenacity decorator of                  *)
(* _fetch_price_with_retry, and fetch_prices_for_ticker around it, one      *)
(* task per ticker under asyncio.gather.  Waits are in seconds.             *)

StopAfterAttempt == 3

WaitMultiplier == 1

WaitMin == 4

WaitMax == 10

\* what one call of the API ends in: a frame with rows, an empty frame, a
\* ConnectionError or TimeoutError, any other exception
FetchOutcomes == {"data", "empty", "transient", "fatal"}

\* a retry condition that retries every exception
RetryIfException(outcome) == outcome \in {"transient", "fatal"}

\* retry_if_exception_type((ConnectionError, TimeoutError))
RetryIfExceptionType(outcome) == outcome = "transient"

\* wait_exponential(multiplier, min, max) after the given attempt
WaitExponential(attempt_number) ==
    Max(Max(0, WaitMin), Min(WaitMultiplier * 2 ^ (attempt_number - 1), WaitMax))

\* one attempt of the decorated function for the ticker: a result ends the
\* loop, an exception is retried when the condition holds and the stop is
\* not reached, and is re-raised otherwise; fetch_prices_for_ticker turns a
\* raised exception and an empty answer into None
AttemptFetch(t, outcome) ==
    /\ retry[t].pc = "ready"
    /\ LET n == retry[t].attempt_number + 1
           raised == outcome \in {"transient", "fatal"}
           again == raised /\ RetryIfExceptionType(outcome) /\ n < StopAfterAttempt
       IN retry' = [retry EXCEPT ![t] =
                      [pc |-> IF again THEN "ready" ELSE "done",
                       attempt_number |-> n,
                       errors |-> Append(retry[t].errors, outcome),
                       waits |-> IF again THEN Append(retry[t].waits, WaitExponential(n))
                                 ELSE retry[t].waits,
                       result |-> IF again THEN "pending"
                                  ELSE IF outcome = "data" THEN "data" ELSE "nothing"]]
    /\ UNCHANGED outsideRetry

InitRetry ==
    /\ IdleRetry
    /\ IdleCore /\ IdleClock
    /\ IdleRobots /\ IdlePace /\ IdleParse
    /\ IdleNewsweb /\ IdlePaging /\ IdleWriters

NextRetry ==
    \E t \in RetryTickers, outcome \in FetchOutcomes : AttemptFetch(t, outcome)

SpecRetry == InitRetry /\ [][NextRetry]_vars

\* C30: a price fetch is attempted at most 3 times, only after a connection
\* or timeout error, with waits that do not decrease; any other error ends
\* the loop at once; a ticker whose fetch gave up has the result "nothing
\* fetched", and the other tickers are processed all the same.
C30_BoundedRetry ==
    \A t \in RetryTickers :
        LET r == retry[t] IN
        /\ r.attempt_number <= StopAfterAttempt
        /\ Len(r.errors) = r.attempt_number
        /\ \A i \in 1..(Len(r.errors) - 1) : r.errors[i] = "transient"
        /\ \A i \in 1..(Len(r.waits) - 1) : r.waits[i] <= r.waits[i + 1]
        /\ (r.attempt_number = StopAfterAttempt) => r.pc = "done"
        /\ r.pc = "done"
              => /\ r.result = IF r.errors[Len(r.errors)] = "data"
                               THEN "data" ELSE "nothing"
                 /\ Len(r.waits) = Len(r.errors) - 1
        /\ r.pc = "ready" => r.result = "pending"

\* one ticker gave up after three transient errors and two waits, the other
\* got its data at the second attempt
C30_Witness ==
    /\ retry["EQNR"].pc = "done"
    /\ retry["EQNR"].errors = <<"transient", "transient", "transient">>
    /\ Len(retry["EQNR"].waits) = 2
    /\ retry["EQNR"].result = "nothing"
    /\ retry["DNB"].pc = "done"
    /\ retry["DNB"].errors = <<"transient", "data">>
    /\ retry["DNB"].result = "data"

====
